---- MODULE Spec2Model ----
(***************************************************************************)
(* Log merge engine of the FRITZ!Box log collector.                        *)
(*                                                                         *)
(* Two historical variants of the merge live in the repository:            *)
(*   - Connection::append_logs (src/src/db/connection.rs): entries are     *)
(*     (time, msg_id); the table carries a unique index on                 *)
(*     (logged_at, message_id); new rows are only ever inserted.           *)
(*   - Database::append_new_logs: records carry an optional repetition,    *)
(*     the newest row may be replaced in place.                            *)
(***************************************************************************)
EXTENDS Integers, Sequences, FiniteSets, TLC

\* Bounds of the model.
MaxTime == 2        \* timestamps are 0..MaxTime
MaxMsgId == 2       \* message ids are 1..MaxMsgId
MaxBatchLen == 3    \* a fetched batch holds at most MaxBatchLen entries
MaxCount == 3       \* repetition counts are 2..MaxCount
MaxCategoryId == 1  \* category ids are 1..MaxCategoryId
MaxPollLen == 2     \* a polled batch of the Database variant holds at most MaxPollLen records
MaxRows == 3        \* the Database variant's table is explored up to MaxRows rows
MaxPings == 2       \* the ping loop is followed for MaxPings rows of table `pings`
MaxInt == 99        \* the Normalizer's integers range over -MaxInt..MaxInt

MaxResponseLen == 3 \* a response of the device holds at most MaxResponseLen raw entries
MaxHistory == 3     \* the device's event log is followed for MaxHistory entries
MaxRounds == 99     \* u32::MAX, scaled down
SaltLen == 16       \* bytes of a salt of a challenge
SidLen == 8         \* bytes of a session id
HashLen == 32       \* bytes of the output of a PBKDF2 round

VARIABLES
    pc,         \* where the collector stands: idle (waiting for the tick),
                \* polling, fetched, merging, merged, exited
    logs,       \* Connection: rows of table `logs`, in ascending id order
    store,      \* Database: rows of the log table, in insertion order
    entries,    \* the batch of the current run
    before,     \* the table as it was when the run's merge started
    outcome,    \* what the run's merge returned
    ops,        \* store operations the run's merge issued, in order
    in_flight,  \* Database: calls of append_new_logs that have not returned
    pings,      \* Database: number of rows of table `pings`
    box,        \* Login: the fields the device put into its challenge, and the
                \* password of the user
    text,       \* Login: the challenge string received
    challenge,  \* Login: what Challenge::from_str returned
    response,   \* Login: the response string sent back
    given,      \* new_entries: the latest entry it is called with
    slice,      \* new_entries: the slice of the batch it returned
    delivered,  \* the list of the current run as the device delivered it,
                \* newest first
    history,    \* the device's event log, oldest first, and the place of the
                \* oldest entry the device still holds
    reply,      \* Client::logs: the raw entries of the response, newest first
    fetched,    \* Client::logs: what the call returned
    session_id, \* Client: the stored session id, None before the first login
    calling,    \* Client: the operation that is running, None for none
    held,       \* Client: the stored session id when the operation was called
    requests,   \* Client: the requests the operation has sent, in order
    answers,    \* Client: what the device answered to them
    result,     \* Client: what the operation returned
    original,   \* storage: the fritz::Log handed to the conversion
    db_row,     \* storage: the db::Log row
    restored,   \* storage: what Log::try_from returned for the row
    elapsed,    \* request: the milliseconds start.elapsed() measured (u128)
    duration_ms, \* request: the duration_ms recorded by either client
    device,     \* Normalizer: what the device formatted into the raw entry
    raw,        \* Normalizer: the raw entry (api::Log), fields as strings
    normalized  \* Normalizer: what Log::try_from returned for `raw`

vars == <<pc, logs, store, entries, before, outcome, ops, in_flight, pings,
          device, raw, normalized, box, text, challenge, response, given, slice,
          delivered, history, reply, fetched,
          session_id, calling, held, requests, answers, result,
          original, db_row, restored, elapsed, duration_ms>>

\* the Normalizer's variables, which no step of a merge or of a driver changes
normalizerVars == <<device, raw, normalized>>

loginVars == <<box, text, challenge, response>>

callVars == <<given, slice>>

sessionVars == <<session_id, calling, held, requests, answers, result>>

conversionVars == <<original, db_row, restored, elapsed, duration_ms>>

clientVars == <<reply, fetched, sessionVars, conversionVars>>

\* Option::None
None == [none |-> TRUE]

Max(S) == CHOOSE x \in S : \A y \in S : y <= x

\* &s[k..] for a 0-based k
SliceFrom(s, k) == SubSeq(s, k + 1, Len(s))

\* every sequence over S of length 0..n
SeqsUpTo(S, n) == UNION {[1..k -> S] : k \in 0..n}

IsPrefix(p, s) == Len(p) <= Len(s) /\ SubSeq(s, 1, Len(p)) = p

(***************************************************************************)
(* Connection (src/src/db/connection.rs)                                   *)
(***************************************************************************)

\* logs::LogEntry: `time` in whole seconds, `msg_id`.  `msg` and `raw_msg`
\* are carried into the INSERT verbatim and read by no comparison of the
\* merge; they are left out of the record.
LogEntry == [time : 0..MaxTime, msg_id : 1..MaxMsgId]

\* a row of table `logs`; the AUTOINCREMENT id is the row's position
LogRow == [logged_at : 0..MaxTime, message_id : 1..MaxMsgId]

\* the values bound to the INSERT: logged_at = entry.time.timestamp()
ToRow(entry) == [logged_at |-> entry.time, message_id |-> entry.msg_id]

\* LogEntry::new(message, message_id, category, logged_at)
LogEntry_new(row) == [time |-> row.logged_at, msg_id |-> row.message_id]

\* IsSortedByTime with the check compiled out, as a debug_assert! is in a
\* release build
IsSortedByTime_unchecked(es) == TRUE

\* entries.windows(2).all(|e| e[0].time <= e[1].time)
IsSortedByTime(es) == \A i \in 1..(Len(es) - 1) : es[i].time <= es[i + 1].time

\* slice::partition_point on a slice partitioned by a predicate, given as the
\* set `pred` of the entries that satisfy it: the number of leading elements
\* that satisfy it
partition_point(es, pred) ==
    CHOOSE k \in 0..Len(es) :
        /\ \A i \in 1..k : es[i] \in pred
        /\ k < Len(es) => es[k + 1] \notin pred

\* the unique index logs_unique_index ON logs (logged_at, message_id)
UniqueIndexRejects(table, row) ==
    \E i \in 1..Len(table) :
        /\ table[i].logged_at = row.logged_at
        /\ table[i].message_id = row.message_id

\* new_entries with the first early return's comparison turned around: a
\* batch that starts before latest is taken for entirely new
new_entries_older_is_new(latest, es) ==
    IF es[1].time < latest.time
    THEN es
    ELSE IF es[Len(es)].time < latest.time
    THEN <<>>
    ELSE LET eq_begin == partition_point(es, {log \in LogEntry : log.time < latest.time})
             eq_end == partition_point(es, {log \in LogEntry : log.time <= latest.time})
             found == {i \in eq_begin..(eq_end - 1) : es[i + 1].msg_id = latest.msg_id}
         IN  IF eq_begin = eq_end
             THEN SliceFrom(es, eq_begin)
             ELSE IF found # {}
             THEN LET index == Max(found)
                  IN  IF index = Len(es) - 1 THEN <<>> ELSE SliceFrom(es, index + 1)
             ELSE SliceFrom(es, eq_begin)

\* new_entries whose first early return hands back the empty slice
new_entries_newer_dropped(latest, es) ==
    IF es[1].time > latest.time
    THEN <<>>
    ELSE IF es[Len(es)].time < latest.time
    THEN <<>>
    ELSE LET eq_begin == partition_point(es, {log \in LogEntry : log.time < latest.time})
             eq_end == partition_point(es, {log \in LogEntry : log.time <= latest.time})
             found == {i \in eq_begin..(eq_end - 1) : es[i + 1].msg_id = latest.msg_id}
         IN  IF eq_begin = eq_end
             THEN SliceFrom(es, eq_begin)
             ELSE IF found # {}
             THEN LET index == Max(found)
                  IN  IF index = Len(es) - 1 THEN <<>> ELSE SliceFrom(es, index + 1)
             ELSE SliceFrom(es, eq_begin)

\* new_entries whose second early return hands back the whole batch
new_entries_older_kept(latest, es) ==
    IF es[1].time > latest.time
    THEN es
    ELSE IF es[Len(es)].time < latest.time
    THEN es
    ELSE LET eq_begin == partition_point(es, {log \in LogEntry : log.time < latest.time})
             eq_end == partition_point(es, {log \in LogEntry : log.time <= latest.time})
             found == {i \in eq_begin..(eq_end - 1) : es[i + 1].msg_id = latest.msg_id}
         IN  IF eq_begin = eq_end
             THEN SliceFrom(es, eq_begin)
             ELSE IF found # {}
             THEN LET index == Max(found)
                  IN  IF index = Len(es) - 1 THEN <<>> ELSE SliceFrom(es, index + 1)
             ELSE SliceFrom(es, eq_begin)

\* new_entries off by one downwards: the slice starts at the pivot
new_entries_from_pivot(latest, es) ==
    IF es[1].time > latest.time
    THEN es
    ELSE IF es[Len(es)].time < latest.time
    THEN <<>>
    ELSE LET eq_begin == partition_point(es, {log \in LogEntry : log.time < latest.time})
             eq_end == partition_point(es, {log \in LogEntry : log.time <= latest.time})
             found == {i \in eq_begin..(eq_end - 1) : es[i + 1].msg_id = latest.msg_id}
         IN  IF eq_begin = eq_end
             THEN SliceFrom(es, eq_begin)
             ELSE IF found # {}
             THEN LET index == Max(found)
                  IN  SliceFrom(es, index)
             ELSE SliceFrom(es, eq_begin)

\* new_entries off by one upwards: the record after the pivot is skipped
new_entries_skips_one(latest, es) ==
    IF es[1].time > latest.time
    THEN es
    ELSE IF es[Len(es)].time < latest.time
    THEN <<>>
    ELSE LET eq_begin == partition_point(es, {log \in LogEntry : log.time < latest.time})
             eq_end == partition_point(es, {log \in LogEntry : log.time <= latest.time})
             found == {i \in eq_begin..(eq_end - 1) : es[i + 1].msg_id = latest.msg_id}
         IN  IF eq_begin = eq_end
             THEN SliceFrom(es, eq_begin)
             ELSE IF found # {}
             THEN LET index == Max(found)
                  IN  IF index >= Len(es) - 2 THEN <<>> ELSE SliceFrom(es, index + 2)
             ELSE SliceFrom(es, eq_begin)

\* new_entries that skips the whole equal range when no record of it carries
\* latest's msg_id
new_entries_skips_equal_range(latest, es) ==
    IF es[1].time > latest.time
    THEN es
    ELSE IF es[Len(es)].time < latest.time
    THEN <<>>
    ELSE LET eq_begin == partition_point(es, {log \in LogEntry : log.time < latest.time})
             eq_end == partition_point(es, {log \in LogEntry : log.time <= latest.time})
             found == {i \in eq_begin..(eq_end - 1) : es[i + 1].msg_id = latest.msg_id}
         IN  IF eq_begin = eq_end
             THEN SliceFrom(es, eq_begin)
             ELSE IF found # {}
             THEN LET index == Max(found)
                  IN  IF index = Len(es) - 1 THEN <<>> ELSE SliceFrom(es, index + 1)
             ELSE SliceFrom(es, eq_end)

\* new_entries that cuts after the first entry of the equal range that
\* carries latest's msg_id instead of the last one
new_entries_first_match(latest, es) ==
    IF es[1].time > latest.time
    THEN es
    ELSE IF es[Len(es)].time < latest.time
    THEN <<>>
    ELSE LET eq_begin == partition_point(es, {log \in LogEntry : log.time < latest.time})
             eq_end == partition_point(es, {log \in LogEntry : log.time <= latest.time})
             found == {i \in eq_begin..(eq_end - 1) : es[i + 1].msg_id = latest.msg_id}
         IN  IF eq_begin = eq_end
             THEN SliceFrom(es, eq_begin)
             ELSE IF found # {}
             THEN LET index == CHOOSE i \in found : \A j \in found : i <= j
                  IN  IF index = Len(es) - 1 THEN <<>> ELSE SliceFrom(es, index + 1)
             ELSE SliceFrom(es, eq_begin)

\* new_entries that returns nothing when no entry of the equal range carries
\* latest's msg_id
new_entries_no_match_is_old(latest, es) ==
    IF es[1].time > latest.time
    THEN es
    ELSE IF es[Len(es)].time < latest.time
    THEN <<>>
    ELSE LET eq_begin == partition_point(es, {log \in LogEntry : log.time < latest.time})
             eq_end == partition_point(es, {log \in LogEntry : log.time <= latest.time})
             found == {i \in eq_begin..(eq_end - 1) : es[i + 1].msg_id = latest.msg_id}
         IN  IF eq_begin = eq_end
             THEN SliceFrom(es, eq_begin)
             ELSE IF found # {}
             THEN LET index == Max(found)
                  IN  IF index = Len(es) - 1 THEN <<>> ELSE SliceFrom(es, index + 1)
             ELSE <<>>

\* Connection::new_entries(latest, new_entries) for a non-empty batch
new_entries(latest, es) ==
    IF es[1].time > latest.time
    THEN es
    ELSE IF es[Len(es)].time < latest.time
    THEN <<>>
    ELSE LET eq_begin == partition_point(es, {log \in LogEntry : log.time < latest.time})
             eq_end == partition_point(es, {log \in LogEntry : log.time <= latest.time})
             found == {i \in eq_begin..(eq_end - 1) : es[i + 1].msg_id = latest.msg_id}
         IN  IF eq_begin = eq_end
             THEN SliceFrom(es, eq_begin)
             ELSE IF found # {}
             THEN LET index == Max(found)
                  IN  IF index = Len(es) - 1 THEN <<>> ELSE SliceFrom(es, index + 1)
             ELSE SliceFrom(es, eq_begin)

\* append_logs_impl that goes on with the next entry when an INSERT fails
RECURSIVE append_logs_impl_skips_failed(_, _, _, _)
append_logs_impl_skips_failed(table, es, fault, done) ==
    IF es = <<>>
    THEN [rows |-> table, ok |-> \A i \in 1..Len(done) : done[i] # "insert_failed",
          ops |-> done]
    ELSE IF fault = 0
    THEN append_logs_impl_skips_failed(table, Tail(es), MaxBatchLen,
                                       Append(done, "insert_failed"))
    ELSE IF UniqueIndexRejects(table, ToRow(Head(es)))
    THEN [rows |-> table, ok |-> FALSE, ops |-> Append(done, "insert_rejected")]
    ELSE append_logs_impl_skips_failed(Append(table, ToRow(Head(es))), Tail(es),
                                       fault - 1, Append(done, "insert"))

\* Connection::append_logs_impl: one INSERT per entry, in order; the first
\* INSERT that fails ends the loop with Err.  An INSERT fails when the unique
\* index rejects it or when the connection breaks: `fault` is the number of
\* INSERTs the connection still carries out.  `done` are the operations
\* issued so far.
RECURSIVE append_logs_impl(_, _, _, _)
append_logs_impl(table, es, fault, done) ==
    IF es = <<>>
    THEN [rows |-> table, ok |-> TRUE, ops |-> done]
    ELSE IF fault = 0
    THEN [rows |-> table, ok |-> FALSE, ops |-> Append(done, "insert_failed")]
    ELSE IF UniqueIndexRejects(table, ToRow(Head(es)))
    THEN [rows |-> table, ok |-> FALSE, ops |-> Append(done, "insert_rejected")]
    ELSE append_logs_impl(Append(table, ToRow(Head(es))), Tail(es), fault - 1,
                          Append(done, "insert"))

\* latest_logs that reads ORDER BY id ASC, as newest_logs does
latest_logs_ascending(table, limit) ==
    LET n == IF limit = None THEN Len(table)
             ELSE IF limit.some < 1 THEN 1 ELSE limit.some
        m == IF n < Len(table) THEN n ELSE Len(table)
    IN  [i \in 1..m |-> LogEntry_new(table[i])]

\* Connection::latest_logs(limit): SELECT ... ORDER BY id DESC LIMIT ?1 with
\* limit.unwrap_or(i64::MAX).max(1); `limit` is None or [some |-> n]
latest_logs(table, limit) ==
    LET n == IF limit = None THEN Len(table)
             ELSE IF limit.some < 1 THEN 1 ELSE limit.some
        m == IF n < Len(table) THEN n ELSE Len(table)
    IN  [i \in 1..m |-> LogEntry_new(table[Len(table) - i + 1])]

\* self.latest_logs(Some(1)).await?.into_iter().next()
latest_entry(table) ==
    LET got == latest_logs(table, [some |-> 1])
    IN  IF got = <<>> THEN None ELSE got[1]

\* match_latest whose None arm hands the batch to new_entries as if its
\* first entry were the latest row
match_latest_first_as_latest(latest, es) ==
    IF latest = None
    THEN IF es = <<>> THEN es ELSE new_entries(es[1], es)
    ELSE new_entries(latest, es)

\* the match on `latest` in Connection::append_logs: the entries handed to
\* append_logs_impl
match_latest(latest, es) ==
    IF latest = None THEN es ELSE new_entries(latest, es)

\* a connection that carries out every INSERT of a batch
NoFault == MaxBatchLen

Panic(why) == [kind |-> "panic", error |-> why, count |-> 0]
Err(why) == [kind |-> "err", error |-> why, count |-> 0]
Ok(n) == [kind |-> "ok", error |-> "", count |-> n]

\* append_logs that inserts the batch before it reads the latest row
append_logs_writes_first(table, es, select_ok, fault) ==
    IF ~IsSortedByTime(es)
    THEN [rows |-> table, outcome |-> Panic("assert_sorted"), ops |-> <<>>]
    ELSE LET res == append_logs_impl(table, es, fault, <<>>)
         IN  [rows |-> res.rows,
              outcome |-> IF res.ok /\ select_ok THEN Ok(Len(es)) ELSE Err("insert"),
              ops |-> Append(res.ops, IF select_ok THEN "latest_logs"
                                      ELSE "latest_logs_failed")]

\* Connection::append_logs(entries) on `table`: the table afterwards, what the
\* call returns and the store operations it issued.  `select_ok` tells whether
\* the SELECT of latest_logs succeeds, `fault` how many INSERTs the connection
\* carries out before it breaks.
append_logs(table, es, select_ok, fault) ==
    IF ~IsSortedByTime(es)
    THEN \* assert!(entries.windows(2).all(..)) panics before any store access
         [rows |-> table, outcome |-> Panic("assert_sorted"), ops |-> <<>>]
    ELSE IF ~select_ok
    THEN [rows |-> table, outcome |-> Err("select"),
          ops |-> <<"latest_logs_failed">>]
    ELSE IF latest_entry(table) # None /\ es = <<>>
    THEN \* new_entries.first().unwrap() on an empty slice
         [rows |-> table, outcome |-> Panic("unwrap_none"),
          ops |-> <<"latest_logs">>]
    ELSE LET new == match_latest(latest_entry(table), es)
             res == append_logs_impl(table, new, fault, <<"latest_logs">>)
         IN  [rows |-> res.rows,
              outcome |-> IF res.ok THEN Ok(Len(new)) ELSE Err("insert"),
              ops |-> res.ops]

\* a reverse that leaves the list in the device's order
reverse_keeps_order(list) == list

\* logs.reverse(): the list back to front
reverse(list) == [i \in 1..Len(list) |-> list[Len(list) - i + 1]]

Batches == SeqsUpTo(LogEntry, MaxBatchLen)

NoOutcome == [kind |-> "none", error |-> "", count |-> 0]

Init ==
    /\ pc = "idle"
    /\ logs = <<>>
    /\ store = <<>>
    /\ entries = <<>>
    /\ before = <<>>
    /\ outcome = NoOutcome
    /\ ops = <<>>
    /\ in_flight = 0
    /\ pings = 0
    /\ device = None
    /\ raw = None
    /\ normalized = None
    /\ box = None
    /\ text = None
    /\ challenge = None
    /\ response = None
    /\ given = None
    /\ slice = <<>>
    /\ delivered = <<>>
    /\ history = [log |-> <<>>, from |-> 1]
    /\ reply = None
    /\ fetched = None
    /\ session_id = None
    /\ calling = None
    /\ held = None
    /\ requests = <<>>
    /\ answers = <<>>
    /\ result = None
    /\ original = None
    /\ db_row = None
    /\ restored = None
    /\ elapsed = 0
    /\ duration_ms = None

\* src/src/bin/fetch_logs.rs: one run of the collector fetches the device's
\* log (LogEntry::from_json hands it over oldest first), merges it into the
\* table and ends.

\* client.logs(&session): the batch this run works on
FetchLogs(list) ==
    /\ pc = "idle"
    /\ pc' = "fetched"
    /\ delivered' = list
    /\ entries' = reverse(list)
    /\ UNCHANGED <<history, clientVars, logs, store, before, outcome, ops, in_flight, pings, normalizerVars, loginVars, callVars>>

\* db.append_logs(&logs)
AppendLogs(select_ok, fault) ==
    /\ pc = "fetched"
    /\ pc' = "merged"
    /\ LET r == append_logs(logs, entries, select_ok, fault)
       IN  /\ logs' = r.rows
           /\ outcome' = r.outcome
           /\ ops' = r.ops
    /\ before' = logs
    /\ UNCHANGED <<history, clientVars, delivered, store, entries, in_flight, pings, normalizerVars, loginVars, callVars>>

\* the run ends; only the table outlives it
EndRun ==
    /\ pc = "merged"
    /\ pc' = "idle"
    /\ entries' = <<>>
    /\ delivered' = <<>>
    /\ before' = <<>>
    /\ outcome' = NoOutcome
    /\ ops' = <<>>
    /\ UNCHANGED <<history, clientVars, logs, store, in_flight, pings, normalizerVars, loginVars, callVars>>

NextConnection ==
    \/ \E list \in Batches : FetchLogs(list)
    \/ \E select_ok \in BOOLEAN, fault \in 0..MaxBatchLen : AppendLogs(select_ok, fault)
    \/ EndRun

SpecConnection == Init /\ [][NextConnection]_vars

\* Connection::new_entries on its own: every latest entry and every batch
\* that append_logs can hand to it (non-empty, past the sortedness assertion)

\* Self::new_entries(&latest, entries) is called
CallNewEntries(l, es) ==
    /\ pc = "idle"
    /\ es # <<>>
    /\ IsSortedByTime(es)
    /\ pc' = "called"
    /\ given' = l
    /\ entries' = es
    /\ slice' = <<>>
    /\ UNCHANGED <<history, clientVars, delivered, logs, store, before, outcome, ops, in_flight, pings,
                   normalizerVars, loginVars>>

\* it returns
NewEntriesReturns ==
    /\ pc = "called"
    /\ pc' = "returned"
    /\ slice' = new_entries(given, entries)
    /\ UNCHANGED <<history, clientVars, delivered, logs, store, entries, before, outcome, ops, in_flight, pings,
                   normalizerVars, loginVars, given>>

\* the caller is done with the slice
DropSlice ==
    /\ pc = "returned"
    /\ pc' = "idle"
    /\ given' = None
    /\ entries' = <<>>
    /\ slice' = <<>>
    /\ UNCHANGED <<history, clientVars, delivered, logs, store, before, outcome, ops, in_flight, pings,
                   normalizerVars, loginVars>>

NextNewEntries ==
    \/ pc = "idle" /\ \E l \in LogEntry, es \in Batches : CallNewEntries(l, es)
    \/ NewEntriesReturns
    \/ DropSlice

SpecNewEntries == Init /\ [][NextNewEntries]_vars

(***************************************************************************)
(* Database (fritz-app): fritz::Log records and the merge of                *)
(* Database::append_new_logs over the store adapter's select_latest,       *)
(* append and replace.                                                     *)
(***************************************************************************)

\* fritz::Repetition { datetime, count }; datetime is first_seen
Repetition == [datetime : 0..MaxTime, count : 2..MaxCount]

\* fritz::Log; `datetime` in whole seconds.  `message` is carried along and
\* read by no comparison of the merge; it is left out of the record.  A
\* repetition's first_seen is never after the record's own timestamp.
Log ==
    {l \in [datetime : 0..MaxTime, message_id : 1..MaxMsgId,
            category_id : 1..MaxCategoryId, repetition : Repetition \cup {None}] :
        l.repetition # None => l.repetition.datetime <= l.datetime}

\* db::util::local_to_utc_timestamp: unix time in milliseconds
local_to_utc_timestamp(local) == local * 1000

\* earliest_timestamp_utc that forgets the repetition: the record's own
\* timestamp is taken for the time the event was first seen
earliest_timestamp_utc_ignores_repetition(log) == local_to_utc_timestamp(log.datetime)

\* Log::earliest_timestamp_utc
earliest_timestamp_utc(log) ==
    IF log.repetition = None
    THEN local_to_utc_timestamp(log.datetime)
    ELSE local_to_utc_timestamp(log.repetition.datetime)

\* Log::latest_timestamp_utc
latest_timestamp_utc(log) == local_to_utc_timestamp(log.datetime)

\* the identity key (earliest_timestamp, message_id, category_id)
identity_key(log) == <<earliest_timestamp_utc(log), log.message_id, log.category_id>>

\* batch sorted non-decreasing by timestamp (Invariant I1)
IsSortedByTimestamp(batch) ==
    \A i \in 1..(Len(batch) - 1) :
        latest_timestamp_utc(batch[i]) <= latest_timestamp_utc(batch[i + 1])

\* select_latest(): the most recent row by timestamp, None when the store is
\* empty; among rows of equal timestamp the one inserted last
select_latest(table) ==
    IF table = <<>>
    THEN None
    ELSE LET newest == {i \in 1..Len(table) :
                           \A j \in 1..Len(table) :
                               latest_timestamp_utc(table[j]) <= latest_timestamp_utc(table[i])}
         IN  table[Max(newest)]

\* replace(old, new): the rows matching old's identity key take new's
\* fields; the call fails unless exactly one row was affected
replace(table, old, new) ==
    LET hit == {i \in 1..Len(table) : identity_key(table[i]) = identity_key(old)}
    IN  [rows |-> [i \in 1..Len(table) |-> IF i \in hit THEN new ELSE table[i]],
         ok |-> Cardinality(hit) = 1]

\* append(records): one row per record, in the given order, neither
\* reordered nor deduplicated; `fault` is the number of writes the connection
\* still carries out
RECURSIVE append(_, _, _, _)
append(table, records, fault, done) ==
    IF records = <<>>
    THEN [rows |-> table, ok |-> TRUE, ops |-> done]
    ELSE IF fault = 0
    THEN [rows |-> table, ok |-> FALSE, ops |-> Append(done, "append_failed")]
    ELSE append(Append(table, Head(records)), Tail(records), fault - 1,
                Append(done, "append"))

OkLogs(upserted) == [kind |-> "ok", error |-> "", upserted |-> upserted]
ErrLogs(why) == [kind |-> "err", error |-> why, upserted |-> <<>>]

\* the result of a merge whose writes are `written` (rows, ok, ops)
MergeResult(written, upserted) ==
    [rows |-> written.rows,
     outcome |-> IF written.ok THEN OkLogs(upserted) ELSE ErrLogs("store"),
     ops |-> written.ops]

\* merge_overlap that reports the pivot whether or not it was replaced
merge_overlap_reports_pivot(table, batch, latest, fault) ==
    LET found == {i \in 1..Len(batch) : identity_key(batch[i]) = identity_key(latest)}
    IN  IF found = {}
        THEN [rows |-> table, outcome |-> ErrLogs("OverlapNotFound"),
              ops |-> <<"select_latest">>]
        ELSE LET i == Max(found)
                 pivot == batch[i]
                 rest == SubSeq(batch, i + 1, Len(batch))
                 changed == \/ pivot.datetime # latest.datetime
                            \/ pivot.repetition # latest.repetition
             IN  IF ~changed
                 THEN MergeResult(append(table, rest, fault, <<"select_latest">>),
                                  <<pivot>> \o rest)
                 ELSE IF fault = 0
                 THEN [rows |-> table, outcome |-> ErrLogs("store"),
                       ops |-> <<"select_latest", "replace_failed">>]
                 ELSE LET r == replace(table, latest, pivot)
                      IN  IF ~r.ok
                          THEN [rows |-> r.rows, outcome |-> ErrLogs("store"),
                                ops |-> <<"select_latest", "replace_miscount">>]
                          ELSE MergeResult(
                                   append(r.rows, rest, fault - 1,
                                          <<"select_latest", "replace">>),
                                   <<pivot>> \o rest)

\* the partial-overlap case of the merge: the pivot is the last batch record
\* carrying latest's identity key
merge_overlap(table, batch, latest, fault) ==
    LET found == {i \in 1..Len(batch) : identity_key(batch[i]) = identity_key(latest)}
    IN  IF found = {}
        THEN [rows |-> table, outcome |-> ErrLogs("OverlapNotFound"),
              ops |-> <<"select_latest">>]
        ELSE LET i == Max(found)
                 pivot == batch[i]
                 rest == SubSeq(batch, i + 1, Len(batch))
                 changed == \/ pivot.datetime # latest.datetime
                            \/ pivot.repetition # latest.repetition
             IN  IF ~changed
                 THEN MergeResult(append(table, rest, fault, <<"select_latest">>), rest)
                 ELSE IF fault = 0
                 THEN [rows |-> table, outcome |-> ErrLogs("store"),
                       ops |-> <<"select_latest", "replace_failed">>]
                 ELSE LET r == replace(table, latest, pivot)
                      IN  IF ~r.ok
                          THEN [rows |-> r.rows, outcome |-> ErrLogs("store"),
                                ops |-> <<"select_latest", "replace_miscount">>]
                          ELSE MergeResult(
                                   append(r.rows, rest, fault - 1,
                                          <<"select_latest", "replace">>),
                                   <<pivot>> \o rest)

\* append_new_logs without the "entirely older" case: a stale batch is
\* merged as a partial overlap
append_new_logs_merges_stale(table, batch, select_ok, fault) ==
    IF ~IsSortedByTimestamp(batch)
    THEN [rows |-> table, outcome |-> ErrLogs("UnsortedBatch"), ops |-> <<>>]
    ELSE IF ~select_ok
    THEN [rows |-> table, outcome |-> ErrLogs("store"),
          ops |-> <<"select_latest_failed">>]
    ELSE LET latest == select_latest(table)
         IN  IF latest = None
             THEN MergeResult(append(table, batch, fault, <<"select_latest">>), batch)
             ELSE IF earliest_timestamp_utc(batch[1]) > latest_timestamp_utc(latest)
             THEN MergeResult(append(table, batch, fault, <<"select_latest">>), batch)
             ELSE merge_overlap(table, batch, latest, fault)

\* Database::append_new_logs(batch) on `table`, for a non-empty batch: the
\* table afterwards, what the call returns and the store operations issued
append_new_logs(table, batch, select_ok, fault) ==
    IF ~IsSortedByTimestamp(batch)
    THEN [rows |-> table, outcome |-> ErrLogs("UnsortedBatch"), ops |-> <<>>]
    ELSE IF ~select_ok
    THEN [rows |-> table, outcome |-> ErrLogs("store"),
          ops |-> <<"select_latest_failed">>]
    ELSE LET latest == select_latest(table)
         IN  IF latest = None
             THEN MergeResult(append(table, batch, fault, <<"select_latest">>), batch)
             ELSE IF earliest_timestamp_utc(batch[1]) > latest_timestamp_utc(latest)
             THEN MergeResult(append(table, batch, fault, <<"select_latest">>), batch)
             ELSE IF latest_timestamp_utc(batch[Len(batch)]) < latest_timestamp_utc(latest)
             THEN [rows |-> table, outcome |-> OkLogs(<<>>), ops |-> <<"select_latest">>]
             ELSE merge_overlap(table, batch, latest, fault)

Polls == SeqsUpTo(Log, MaxPollLen) \ {<<>>}

\* a connection that carries out every write of a merge
NoStoreFault == MaxPollLen + 1

\* fritz-app/src/bin/fritz-app.rs: the poll loop waits for the tick, fetches
\* the device's log, reverses it into old -> new order, merges it and records
\* the update.

\* interval.tick().await returns and client.logs() is called
Tick ==
    /\ pc = "idle"
    /\ pc' = "polling"
    /\ UNCHANGED <<history, clientVars, delivered, logs, store, entries, before, outcome, ops, in_flight, pings, normalizerVars, loginVars, callVars>>

\* client.logs() answered; logs.reverse()
PollLogs(list) ==
    /\ pc = "polling"
    /\ Len(store) + Len(list) <= MaxRows
    /\ pc' = "fetched"
    /\ delivered' = list
    /\ entries' = reverse(list)
    /\ UNCHANGED <<history, clientVars, logs, store, before, outcome, ops, in_flight, pings, normalizerVars, loginVars, callVars>>

\* client.logs() failed: the error is logged and the inner loop continues
\* with the next tick
PollLogsFailed ==
    /\ pc = "polling"
    /\ pc' = "idle"
    /\ UNCHANGED <<history, clientVars, delivered, logs, store, entries, before, outcome, ops, in_flight, pings, normalizerVars, loginVars, callVars>>

\* AppendNewLogs that spawns the merge as a task of its own and goes on
\* with the next tick without awaiting it
AppendNewLogs_spawned ==
    /\ pc = "fetched"
    /\ pc' = "idle"
    /\ in_flight' = in_flight + 1
    /\ UNCHANGED <<history, clientVars, delivered, logs, store, entries, before, outcome, ops, pings, normalizerVars, loginVars, callVars>>

\* db.append_new_logs(&logs) is called
AppendNewLogs ==
    /\ pc = "fetched"
    /\ pc' = "merging"
    /\ in_flight' = in_flight + 1
    /\ UNCHANGED <<history, clientVars, delivered, logs, store, entries, before, outcome, ops, pings, normalizerVars, loginVars, callVars>>

\* .await: the merge has run and returns
AppendNewLogsReturns(select_ok, fault) ==
    /\ pc = "merging"
    /\ pc' = "merged"
    /\ LET r == append_new_logs(store, entries, select_ok, fault)
       IN  /\ store' = r.rows
           /\ outcome' = r.outcome
           /\ ops' = r.ops
    /\ before' = store
    /\ in_flight' = in_flight - 1
    /\ UNCHANGED <<history, clientVars, delivered, logs, entries, pings, normalizerVars, loginVars, callVars>>

\* Ok: the update is recorded and logged; the loop waits for the next tick
EndPoll ==
    /\ pc = "merged"
    /\ outcome.kind = "ok"
    /\ pc' = "idle"
    /\ entries' = <<>>
    /\ delivered' = <<>>
    /\ before' = <<>>
    /\ outcome' = NoOutcome
    /\ ops' = <<>>
    /\ UNCHANGED <<history, clientVars, logs, store, in_flight, pings, normalizerVars, loginVars, callVars>>

\* Err: .context("insert logs")? returns from main
ExitOnError ==
    /\ pc = "merged"
    /\ outcome.kind = "err"
    /\ pc' = "exited"
    /\ entries' = <<>>
    /\ delivered' = <<>>
    /\ before' = <<>>
    /\ outcome' = NoOutcome
    /\ ops' = <<>>
    /\ UNCHANGED <<history, clientVars, logs, store, in_flight, pings, normalizerVars, loginVars, callVars>>

\* the collector is started again: Database::open on the same database
Restart ==
    /\ pc = "exited"
    /\ pc' = "idle"
    /\ UNCHANGED <<history, clientVars, delivered, logs, store, entries, before, outcome, ops, in_flight, pings, normalizerVars, loginVars, callVars>>

\* the poll loop alone; the ping loop, which shares no table with it, is
\* left to SpecDriver
NextDatabase ==
    \/ Tick
    \/ \E list \in Polls : PollLogs(list)
    \/ PollLogsFailed
    \/ AppendNewLogs
    \/ \E select_ok \in BOOLEAN, fault \in 0..NoStoreFault :
           AppendNewLogsReturns(select_ok, fault)
    \/ EndPoll
    \/ ExitOnError
    \/ Restart

SpecDatabase == Init /\ [][NextDatabase]_vars

\* The device's event log behind the poll loop: it grows at the newest end
\* only.  A new event is logged after the newest entry; an event that repeats
\* the newest entry is collapsed into it, which advances that entry's
\* timestamp and count and keeps the time it was first seen.  The device
\* forgets its oldest entries; `history.log` keeps all it ever held and
\* `history.from` is the place of the oldest entry it still holds.

\* the entries the device holds, oldest first
Held == SubSeq(history.log, history.from, Len(history.log))

\* the device logs an event that is not a repeat of its newest entry
DeviceLogs(log) ==
    /\ pc = "idle"
    /\ Len(history.log) < MaxHistory
    /\ log.repetition = None
    /\ history.log # <<>> =>
           /\ log.datetime >= history.log[Len(history.log)].datetime
           /\ <<log.message_id, log.category_id>>
                  # <<history.log[Len(history.log)].message_id,
                      history.log[Len(history.log)].category_id>>
    /\ history' = [history EXCEPT !.log = Append(history.log, log)]
    /\ UNCHANGED <<clientVars, delivered, pc, logs, store, entries, before, outcome, ops, in_flight,
                   pings, normalizerVars, loginVars, callVars>>

\* the device logs a repeat of its newest entry at time `now`
DeviceRepeats(now) ==
    /\ pc = "idle"
    /\ history.log # <<>>
    /\ now >= history.log[Len(history.log)].datetime
    /\ LET newest == history.log[Len(history.log)]
           seen == IF newest.repetition = None
                   THEN [datetime |-> newest.datetime, count |-> 1]
                   ELSE newest.repetition
       IN  /\ seen.count < MaxCount
           /\ history' = [history EXCEPT !.log[Len(history.log)] =
                              [newest EXCEPT !.datetime = now,
                                             !.repetition = [datetime |-> seen.datetime,
                                                             count |-> seen.count + 1]]]
    /\ UNCHANGED <<clientVars, delivered, pc, logs, store, entries, before, outcome, ops, in_flight,
                   pings, normalizerVars, loginVars, callVars>>

\* the device forgets its oldest entry
DeviceForgets ==
    /\ pc = "idle"
    /\ history.from < Len(history.log)
    /\ history' = [history EXCEPT !.from = history.from + 1]
    /\ UNCHANGED <<clientVars, delivered, pc, logs, store, entries, before, outcome, ops, in_flight,
                   pings, normalizerVars, loginVars, callVars>>

\* client.logs() answered with the entries the device holds, newest first;
\* logs.reverse().  The window holds the entry that is the store's latest
\* row.
PollWindow ==
    /\ pc = "polling"
    /\ Held # <<>>
    /\ store # <<>> =>
           \E i \in 1..Len(Held) :
               /\ Held[i].message_id = select_latest(store).message_id
               /\ Held[i].category_id = select_latest(store).category_id
               /\ earliest_timestamp_utc(Held[i]) = earliest_timestamp_utc(select_latest(store))
    /\ pc' = "fetched"
    /\ delivered' = reverse(Held)
    /\ entries' = reverse(reverse(Held))
    /\ UNCHANGED <<history, clientVars, logs, store, before, outcome, ops, in_flight, pings,
                   normalizerVars, loginVars, callVars>>

\* the poll loop in front of such a device, over a store that carries out
\* every operation
NextOverlap ==
    \/ \E log \in Log : DeviceLogs(log)
    \/ \E now \in 0..MaxTime : DeviceRepeats(now)
    \/ DeviceForgets
    \/ Tick
    \/ PollWindow
    \/ PollLogsFailed
    \/ AppendNewLogs
    \/ AppendNewLogsReturns(TRUE, NoStoreFault)
    \/ EndPoll
    \/ ExitOnError
    \/ Restart

SpecOverlap == Init /\ [][NextOverlap]_vars

\* fritz-app/src/ping/mod.rs, ping_loop, spawned by main next to the poll
\* loop: opts.db.insert_ping(&ping_result) adds a row to table `pings`
InsertPing ==
    /\ pc # "exited"
    /\ pings < MaxPings
    /\ pings' = pings + 1
    /\ UNCHANGED <<history, clientVars, delivered, pc, logs, store, entries, before, outcome, ops, in_flight, normalizerVars, loginVars, callVars>>

\* the poll loop and the ping loop side by side
NextDriver ==
    \/ NextDatabase
    \/ InsertPing

SpecDriver == Init /\ [][NextDriver]_vars

\* src/src/bin/fetch_logs_regular.rs: the same loop, but
\* client.logs().await.context("fetch logs")? returns from main when the
\* fetch fails
PollLogsFailedExits ==
    /\ pc = "polling"
    /\ pc' = "exited"
    /\ UNCHANGED <<history, clientVars, delivered, logs, store, entries, before, outcome, ops, in_flight, pings, normalizerVars, loginVars, callVars>>

NextRegular ==
    \/ Tick
    \/ \E list \in Polls : PollLogs(list)
    \/ PollLogsFailedExits
    \/ AppendNewLogs
    \/ \E select_ok \in BOOLEAN, fault \in 0..NoStoreFault :
           AppendNewLogsReturns(select_ok, fault)
    \/ EndPoll
    \/ ExitOnError
    \/ Restart

SpecRegular == Init /\ [][NextRegular]_vars

(***************************************************************************)
(* Normalizer (src/fritz-app/src/fritz/mod.rs): TryFrom<api::Log> for Log. *)
(* A string is the sequence of its characters.                             *)
(***************************************************************************)

\* the ASCII digits and their values
AsciiDigit ==
    [c \in {"0", "1", "2", "3", "4", "5", "6", "7", "8", "9"} |->
        CASE c = "0" -> 0 [] c = "1" -> 1 [] c = "2" -> 2 [] c = "3" -> 3
          [] c = "4" -> 4 [] c = "5" -> 5 [] c = "6" -> 6 [] c = "7" -> 7
          [] c = "8" -> 8 [] c = "9" -> 9]

\* the characters the regex class \d takes: it is Unicode-aware, so decimal
\* digits of other scripts (here ARABIC-INDIC DIGIT THREE) belong to it
RegexDigit == DOMAIN AsciiDigit \cup {"U+0663"}

\* str::len of a character: its length in UTF-8 bytes
Utf8Len(c) == IF c \in {"U+0663", "U+00E9"} THEN 2 ELSE 1

\* str::len
RECURSIVE StrLen(_)
StrLen(str) == IF str = <<>> THEN 0 ELSE Utf8Len(Head(str)) + StrLen(Tail(str))

\* the value of a run of ASCII digits
RECURSIVE DigitsValue(_)
DigitsValue(ds) ==
    IF ds = <<>> THEN 0
    ELSE 10 * DigitsValue(SubSeq(ds, 1, Len(ds) - 1)) + AsciiDigit[ds[Len(ds)]]

\* a failed parse, and a parsed value
ParseErr(why) == [ok |-> FALSE, error |-> why]
ParseOk(value) == [ok |-> TRUE, value |-> value]

\* str::parse::<i64>: an optional sign and at least one ASCII digit, nothing
\* else; a value beyond the integer's range is an error.  The range is
\* scaled to -MaxInt..MaxInt.
parse_i64(str) ==
    LET signed == str # <<>> /\ str[1] \in {"+", "-"}
        ds == IF signed THEN Tail(str) ELSE str
    IN  IF ds = <<>> THEN ParseErr("empty")
        ELSE IF \E i \in 1..Len(ds) : ds[i] \notin DOMAIN AsciiDigit
        THEN ParseErr("invalid digit")
        ELSE IF DigitsValue(ds) > MaxInt
        THEN ParseErr("overflow")
        ELSE ParseOk(IF signed /\ str[1] = "-" THEN 0 - DigitsValue(ds)
                     ELSE DigitsValue(ds))

\* chrono's scan::number(s, 1, 2): one or two leading ASCII digits; the
\* number of characters taken, 0 when there is none
ScanNumber(str) ==
    IF str = <<>> \/ str[1] \notin DOMAIN AsciiDigit THEN 0
    ELSE IF Len(str) >= 2 /\ str[2] \in DOMAIN AsciiDigit THEN 2
    ELSE 1

\* chrono parsing three numeric items separated by the literal `sep` (the
\* formats "%d.%m.%y" and "%H:%M:%S"), for a string without white space:
\* the three numbers, or an error when an item has no digit, a literal does
\* not match or input is left over
ParseThree(str, sep) ==
    LET n1 == ScanNumber(str)
        r1 == SliceFrom(str, n1)
        n2 == ScanNumber(Tail(r1))
        r2 == SliceFrom(Tail(r1), n2)
        n3 == ScanNumber(Tail(r2))
        r3 == SliceFrom(Tail(r2), n3)
    IN  IF n1 = 0 \/ r1 = <<>> \/ r1[1] # sep THEN ParseErr("invalid")
        ELSE IF n2 = 0 \/ r2 = <<>> \/ r2[1] # sep THEN ParseErr("invalid")
        ELSE IF n3 = 0 THEN ParseErr("invalid")
        ELSE IF r3 # <<>> THEN ParseErr("too long")
        ELSE ParseOk(<<DigitsValue(SubSeq(str, 1, n1)),
                       DigitsValue(SubSeq(Tail(r1), 1, n2)),
                       DigitsValue(SubSeq(Tail(r2), 1, n3))>>)

\* the number of days of a month of the Gregorian calendar
DaysInMonth(year, month) ==
    IF month = 2
    THEN IF year % 4 = 0 /\ (year % 100 # 0 \/ year % 400 = 0) THEN 29 ELSE 28
    ELSE IF month \in {4, 6, 9, 11} THEN 30 ELSE 31

\* chrono's Parsed::to_naive_date for the items of "%d.%m.%y": %y below 70
\* is 20yy, else 19yy
to_naive_date(p) ==
    IF ~p.ok THEN p
    ELSE IF p.value[2] \notin 1..12
            \/ p.value[1] \notin 1..DaysInMonth(IF p.value[3] < 70 THEN 2000 + p.value[3]
                                                ELSE 1900 + p.value[3], p.value[2])
    THEN ParseErr("out of range")
    ELSE ParseOk([year |-> IF p.value[3] < 70 THEN 2000 + p.value[3]
                           ELSE 1900 + p.value[3],
                  month |-> p.value[2], day |-> p.value[1]])

\* NaiveDate::parse_from_str(date, "%d.%m.%y")
parse_date(str) == to_naive_date(ParseThree(str, "."))

\* chrono's Parsed::to_naive_time for the items of "%H:%M:%S"; second 60 is
\* a leap second
to_naive_time(p) ==
    IF ~p.ok THEN p
    ELSE IF p.value[1] > 23 \/ p.value[2] > 59 \/ p.value[3] > 60
    THEN ParseErr("out of range")
    ELSE ParseOk([hour |-> p.value[1], minute |-> p.value[2], second |-> p.value[3]])

\* NaiveTime::parse_from_str(time, "%H:%M:%S")
parse_time(str) == to_naive_time(ParseThree(str, ":"))

\* the time zones the collector is run in
Zones == {"UTC", "Europe/Berlin"}

\* NaiveDateTime::and_local_timezone(Local): no local time inside the hour a
\* zone skips when daylight saving time starts, two inside the hour it
\* repeats when it ends (Europe/Berlin in 2023: 26.03. and 29.10., 02:00 to
\* 02:59:59), one otherwise
and_local_timezone(naive, zone) ==
    IF zone = "Europe/Berlin" /\ naive.year = 2023 /\ naive.hour = 2
    THEN IF naive.month = 3 /\ naive.day = 26 THEN "None"
         ELSE IF naive.month = 10 /\ naive.day = 29 THEN "Ambiguous"
         ELSE "Single"
    ELSE "Single"

\* NaiveDateTime::new(date, time)
NaiveDateTime_new(date, time) ==
    [year |-> date.year, month |-> date.month, day |-> date.day,
     hour |-> time.hour, minute |-> time.minute, second |-> time.second]

\* the rest of a parse_datetime that takes the wall-clock time as it is when
\* the zone has no or two local times for it
any_local(d, t, zone) ==
    IF ~d.ok THEN ParseErr("parse datetime date")
    ELSE IF ~t.ok THEN ParseErr("parse datetime time")
    ELSE ParseOk(NaiveDateTime_new(d.value, t.value))

\* parse_datetime without .single()
parse_datetime_any_local(date, time, zone) ==
    any_local(parse_date(date), parse_time(time), zone)

\* the ? on both parse results of parse_datetime, then
\* .and_local_timezone(Local).single().context(..)
single_local(d, t, zone) ==
    IF ~d.ok THEN ParseErr("parse datetime date")
    ELSE IF ~t.ok THEN ParseErr("parse datetime time")
    ELSE IF and_local_timezone(NaiveDateTime_new(d.value, t.value), zone) = "Single"
    THEN ParseOk(NaiveDateTime_new(d.value, t.value))
    ELSE ParseErr("datetime into local timezone")

\* util::parse_datetime(date, time) in time zone `zone`
parse_datetime(date, time, zone) ==
    single_local(parse_date(date), parse_time(time), zone)

\* " Meldungen seit "
MeldungenSeit ==
    <<" ", "M", "e", "l", "d", "u", "n", "g", "e", "n", " ", "s", "e", "i", "t", " ">>

\* str starts with the literal lit
StartsWith(str, lit) == Len(str) >= Len(lit) /\ SubSeq(str, 1, Len(lit)) = lit

\* the length of the longest run of \d characters str starts with
RECURSIVE DigitRun(_)
DigitRun(str) ==
    IF str = <<>> \/ str[1] \notin RegexDigit THEN 0 ELSE 1 + DigitRun(Tail(str))

\* str consists of a run of \d characters, the literal lit and a rest: the
\* run and the rest, None when there is no such run or literal
TakeDigitsThen(str, lit) ==
    LET n == DigitRun(str)
    IN  IF n = 0 \/ ~StartsWith(SliceFrom(str, n), lit) THEN None
        ELSE [digits |-> SubSeq(str, 1, n), rest |-> SliceFrom(str, n + Len(lit))]

\* the regex  \[(\d+) Meldungen seit (\d+\.\d+\.\d+) (\d+:\d+:\d+)\]$
\* (with a leading space) matched at the start of str: the captures, None
\* when str as a whole does not match
MatchRepetition(str) ==
    IF ~StartsWith(str, <<" ", "[">>) THEN None
    ELSE LET count == TakeDigitsThen(SliceFrom(str, 2), MeldungenSeit)
         IN  IF count = None THEN None
             ELSE LET d1 == TakeDigitsThen(count.rest, <<".">>)
                  IN  IF d1 = None THEN None
                  ELSE LET d2 == TakeDigitsThen(d1.rest, <<".">>)
                  IN  IF d2 = None THEN None
                  ELSE LET d3 == TakeDigitsThen(d2.rest, <<" ">>)
                  IN  IF d3 = None THEN None
                  ELSE LET t1 == TakeDigitsThen(d3.rest, <<":">>)
                  IN  IF t1 = None THEN None
                  ELSE LET t2 == TakeDigitsThen(t1.rest, <<":">>)
                  IN  IF t2 = None THEN None
                  ELSE LET t3 == TakeDigitsThen(t2.rest, <<"]">>)
                  IN  IF t3 = None \/ t3.rest # <<>> THEN None
                  ELSE [whole_match |-> str,
                        count |-> count.digits,
                        date |-> d1.digits \o <<".">> \o d2.digits \o <<".">> \o d3.digits,
                        time |-> t1.digits \o <<":">> \o t2.digits \o <<":">> \o t3.digits]

\* lazy_regex::regex_captures!(.., &message): the leftmost match
regex_captures(message) ==
    LET starts == {k \in 0..Len(message) : MatchRepetition(SliceFrom(message, k)) # None}
    IN  IF starts = {} THEN None
        ELSE MatchRepetition(SliceFrom(message, CHOOSE k \in starts : \A j \in starts : k <= j))

\* str::is_char_boundary(index), index in bytes
is_char_boundary(str, index) ==
    \E k \in 0..Len(str) : StrLen(SubSeq(str, 1, k)) = index

\* String::truncate(new_len), new_len in bytes and on a character boundary
truncate(str, new_len) ==
    SubSeq(str, 1, CHOOSE k \in 0..Len(str) : StrLen(SubSeq(str, 1, k)) = new_len)

\* what Log::try_from returns
ErrLog(context) == [kind |-> "err", error |-> context]
OkLog(log) == [kind |-> "ok", log |-> log]
\* String::truncate panics when new_len is inside a character
PanicLog(why) == [kind |-> "panic", error |-> why]

\* the closure over the captures: Repetition { datetime, count } and the
\* length of the match, or the error of either parse
new_repetition(datetime, count, len) ==
    IF ~datetime.ok \/ ~count.ok
    THEN ParseErr("parse repetition message")
    ELSE ParseOk([repetition |-> [datetime |-> datetime.value, count |-> count.value],
                  len |-> len])

\* a closure that drops the captures it cannot parse
new_repetition_lenient(datetime, count, len) ==
    IF ~datetime.ok \/ ~count.ok
    THEN ParseOk(None)
    ELSE ParseOk([repetition |-> [datetime |-> datetime.value, count |-> count.value],
                  len |-> len])

\* Option::map(..).transpose() over the captures of the regex
map_captures(caps, zone) ==
    IF caps = None THEN ParseOk(None)
    ELSE new_repetition(parse_datetime(caps.date, caps.time, zone),
                        parse_i64(caps.count), StrLen(caps.whole_match))

\* map_captures with the lenient closure
map_captures_lenient(caps, zone) ==
    IF caps = None THEN ParseOk(None)
    ELSE new_repetition_lenient(parse_datetime(caps.date, caps.time, zone),
                                parse_i64(caps.count), StrLen(caps.whole_match))

\* a repetition block that drops an annotation it cannot parse
parse_repetition_message_lenient(message, zone) ==
    map_captures_lenient(regex_captures(message), zone)

\* the repetition block of Log::try_from up to
\* .context("parse repetition message"): None, Some(repetition) with the
\* length of the match, or an error
parse_repetition_message(message, zone) ==
    map_captures(regex_captures(message), zone)

\* the record of a try_from that leaves the annotation in the message
new_log_keeps_annotation(message, datetime, message_id, category_id, rep) ==
    IF ~datetime.ok THEN ErrLog(datetime.error)
    ELSE IF ~message_id.ok THEN ErrLog("parse message id")
    ELSE IF ~category_id.ok THEN ErrLog("parse category id")
    ELSE IF ~rep.ok THEN ErrLog(rep.error)
    ELSE OkLog([datetime |-> datetime.value,
                message |-> message,
                message_id |-> message_id.value,
                category_id |-> category_id.value,
                repetition |-> IF rep.value = None THEN None
                               ELSE rep.value.repetition])

\* try_from that leaves the annotation in the message
try_from_keeps_annotation(value, zone) ==
    new_log_keeps_annotation(value.message,
                             parse_datetime(value.date, value.time, zone),
                             parse_i64(value.message_id),
                             parse_i64(value.category_id),
                             parse_repetition_message(value.message, zone))

\* the ? of try_from in the order of its statements, the truncation of the
\* message by the length of the match, and Ok(Log { .. })
new_log(message, datetime, message_id, category_id, rep) ==
    IF ~datetime.ok THEN ErrLog(datetime.error)
    ELSE IF ~message_id.ok THEN ErrLog("parse message id")
    ELSE IF ~category_id.ok THEN ErrLog("parse category id")
    ELSE IF ~rep.ok THEN ErrLog(rep.error)
    ELSE IF rep.value = None
    THEN OkLog([datetime |-> datetime.value,
                message |-> message,
                message_id |-> message_id.value,
                category_id |-> category_id.value,
                repetition |-> None])
    ELSE IF ~is_char_boundary(message, StrLen(message) - rep.value.len)
    THEN PanicLog("new_len is not a char boundary")
    ELSE OkLog([datetime |-> datetime.value,
                message |-> truncate(message, StrLen(message) - rep.value.len),
                message_id |-> message_id.value,
                category_id |-> category_id.value,
                repetition |-> rep.value.repetition])

\* <Log as TryFrom<api::Log>>::try_from(value), run in time zone `zone`
try_from(value, zone) ==
    new_log(value.message,
            parse_datetime(value.date, value.time, zone),
            parse_i64(value.message_id),
            parse_i64(value.category_id),
            parse_repetition_message(value.message, zone))

(***************************************************************************)
(* The entries of the device's event log as Client::logs receives them     *)
(* (src/fritz-app/src/api/client.rs).                                      *)
(***************************************************************************)

\* date fields: "01.01.23", "26.03.23", "29.10.23", "31.02.23", "01-01-23"
Dates ==
    {<<"0", "1", ".", "0", "1", ".", "2", "3">>,
     <<"2", "6", ".", "0", "3", ".", "2", "3">>,
     <<"2", "9", ".", "1", "0", ".", "2", "3">>,
     <<"3", "1", ".", "0", "2", ".", "2", "3">>,
     <<"0", "1", "-", "0", "1", "-", "2", "3">>}

\* time fields: "01:01:01", "02:30:00", "24:00:00", "0101"
Times ==
    {<<"0", "1", ":", "0", "1", ":", "0", "1">>,
     <<"0", "2", ":", "3", "0", ":", "0", "0">>,
     <<"2", "4", ":", "0", "0", ":", "0", "0">>,
     <<"0", "1", "0", "1">>}

\* message id fields: "7", "-7", "x", "100"
MessageIds ==
    {<<"7">>,
     <<"-", "7">>,
     <<"x">>,
     <<"1", "0", "0">>}

\* category id fields: "1", "y"
CategoryIds ==
    {<<"1">>,
     <<"y">>}

\* message texts: "X" and U+00E9, a character of two bytes
Bodies ==
    {<<"X">>,
     <<"U+00E9">>}

\* the count of an annotation: "1", "3", "03", "100", the digit U+0663, "x"
Counts ==
    {<<"1">>,
     <<"3">>,
     <<"0", "3">>,
     <<"1", "0", "0">>,
     <<"U+0663">>,
     <<"x">>}

\* the date of an annotation: "01.01.23", "1.1.23", "26.03.23", "31.02.23",
\* "01.01.2023", "01-01-23"
SinceDates ==
    {<<"0", "1", ".", "0", "1", ".", "2", "3">>,
     <<"1", ".", "1", ".", "2", "3">>,
     <<"2", "6", ".", "0", "3", ".", "2", "3">>,
     <<"3", "1", ".", "0", "2", ".", "2", "3">>,
     <<"0", "1", ".", "0", "1", ".", "2", "0", "2", "3">>,
     <<"0", "1", "-", "0", "1", "-", "2", "3">>}

\* the time of an annotation: "01:01:01", "02:30:00", "24:00:00", "0101"
SinceTimes ==
    {<<"0", "1", ":", "0", "1", ":", "0", "1">>,
     <<"0", "2", ":", "3", "0", ":", "0", "0">>,
     <<"2", "4", ":", "0", "0", ":", "0", "0">>,
     <<"0", "1", "0", "1">>}

\* what follows the annotation: nothing, or "!"
Tails ==
    {<<>>,
     <<"!">>}

\* the annotations a device appends to a message, None for none
Annotations ==
    {None} \cup [count : Counts, date : SinceDates, time : SinceTimes]

\* " [<count> Meldungen seit <date> <time>]" as the device writes it
FormatAnnotation(a) ==
    <<" ", "[">> \o a.count \o MeldungenSeit \o a.date \o <<" ">> \o a.time \o <<"]">>

\* the message field of an entry of the device
FormatMessage(d) ==
    d.body \o (IF d.annotation = None THEN <<>> ELSE FormatAnnotation(d.annotation))
           \o d.tail

\* the device logs an entry and Client::logs receives its fields
ReceiveLog(zone, d, date, time, message_id, category_id) ==
    /\ pc = "idle"
    /\ pc' = "received"
    /\ device' = [zone |-> zone, body |-> d.body, annotation |-> d.annotation,
                  tail |-> d.tail]
    /\ raw' = [date |-> date, time |-> time, message |-> FormatMessage(d),
               message_id |-> message_id, category_id |-> category_id]
    /\ UNCHANGED <<history, clientVars, delivered, logs, store, entries, before, outcome, ops, in_flight, pings,
                   normalized, loginVars, callVars>>

\* fritz::Log::try_from(log)
TryFrom ==
    /\ pc = "received"
    /\ pc' = "normalized"
    /\ normalized' = try_from(raw, device.zone)
    /\ UNCHANGED <<history, clientVars, delivered, logs, store, entries, before, outcome, ops, in_flight, pings,
                   device, raw, loginVars, callVars>>

\* the next entry of the response
NextLog ==
    /\ pc = "normalized"
    /\ pc' = "idle"
    /\ device' = None
    /\ raw' = None
    /\ normalized' = None
    /\ UNCHANGED <<history, clientVars, delivered, logs, store, entries, before, outcome, ops, in_flight, pings, loginVars, callVars>>

NextNormalizer ==
    \/ pc = "idle" /\ \E zone \in Zones, body \in Bodies, annotation \in Annotations, tail \in Tails,
          date \in Dates, time \in Times,
          message_id \in MessageIds, category_id \in CategoryIds :
            ReceiveLog(zone, [body |-> body, annotation |-> annotation, tail |-> tail],
                       date, time, message_id, category_id)
    \/ TryFrom
    \/ NextLog

SpecNormalizer == Init /\ [][NextNormalizer]_vars

(***************************************************************************)
(* Client::logs as a whole (src/fritz-app/src/api/client.rs): the entries  *)
(* of one response are normalized one after the other and collected into a *)
(* Result; the poll loop of fritz-app.rs takes the batch or logs the error. *)
(***************************************************************************)

\* a collect that leaves out the entries that fail to normalize
RECURSIVE collect_skips_failed(_, _, _)
collect_skips_failed(raws, zone, acc) ==
    IF raws = <<>>
    THEN [kind |-> "ok", logs |-> acc]
    ELSE collect_skips_failed(Tail(raws), zone,
                              IF try_from(Head(raws), zone).kind = "ok"
                              THEN Append(acc, try_from(Head(raws), zone).log)
                              ELSE acc)

\* logs.into_iter().map(fritz::Log::try_from).collect(): the records in the
\* order of the response, or the first Err; a panic of try_from ends the
\* call as well
RECURSIVE collect(_, _, _)
collect(raws, zone, acc) ==
    IF raws = <<>>
    THEN [kind |-> "ok", logs |-> acc]
    ELSE IF try_from(Head(raws), zone).kind = "ok"
    THEN collect(Tail(raws), zone, Append(acc, try_from(Head(raws), zone).log))
    ELSE [kind |-> try_from(Head(raws), zone).kind,
          error |-> try_from(Head(raws), zone).error]

\* the entry "01.01.23 01:01:01 <message> <message id> 1"
RawEntry(date, message, message_id) ==
    [date |-> date, time |-> <<"0", "1", ":", "0", "1", ":", "0", "1">>,
     message |-> message, message_id |-> message_id, category_id |-> <<"1">>]

\* raw entries of a response: a plain one, one with an annotation
\* " [3 Meldungen seit 01.01.23 01:01:01]", one dated "31.02.23", one with
\* message id "x", one with an annotation since "31.02.23"
ResponseEntries ==
    {RawEntry(<<"0", "1", ".", "0", "1", ".", "2", "3">>, <<"X">>, <<"7">>),
     RawEntry(<<"2", "6", ".", "0", "3", ".", "2", "3">>,
              FormatMessage([body |-> <<"X">>, tail |-> <<>>,
                             annotation |-> [count |-> <<"3">>,
                                             date |-> <<"0", "1", ".", "0", "1", ".", "2", "3">>,
                                             time |-> <<"0", "1", ":", "0", "1", ":", "0", "1">>]]),
              <<"7">>),
     RawEntry(<<"3", "1", ".", "0", "2", ".", "2", "3">>, <<"X">>, <<"7">>),
     RawEntry(<<"0", "1", ".", "0", "1", ".", "2", "3">>, <<"X">>, <<"x">>),
     RawEntry(<<"0", "1", ".", "0", "1", ".", "2", "3">>,
              FormatMessage([body |-> <<"X">>, tail |-> <<>>,
                             annotation |-> [count |-> <<"3">>,
                                             date |-> <<"3", "1", ".", "0", "2", ".", "2", "3">>,
                                             time |-> <<"0", "1", ":", "0", "1", ":", "0", "1">>]]),
              <<"7">>)}

Responses == SeqsUpTo(ResponseEntries, MaxResponseLen)

\* the device answers the request of Client::logs; the response parses as
\* model::Response
ReceiveResponse(zone, raws) ==
    /\ pc = "idle"
    /\ pc' = "responded"
    /\ reply' = [zone |-> zone, logs |-> raws]
    /\ UNCHANGED <<history, delivered, fetched, sessionVars, conversionVars, logs, store, entries, before, outcome, ops,
                   in_flight, pings, normalizerVars, loginVars, callVars>>

\* Client::logs returns
LogsReturns ==
    /\ pc = "responded"
    /\ pc' = "collected"
    /\ fetched' = collect(reply.logs, reply.zone, <<>>)
    /\ UNCHANGED <<history, delivered, reply, sessionVars, conversionVars, logs, store, entries, before, outcome, ops,
                   in_flight, pings, normalizerVars, loginVars, callVars>>

\* Ok(mut logs) => { logs.reverse(); break logs }
TakeBatch ==
    /\ pc = "collected"
    /\ fetched.kind = "ok"
    /\ pc' = "handed"
    /\ delivered' = fetched.logs
    /\ entries' = reverse(fetched.logs)
    /\ UNCHANGED <<history, clientVars, logs, store, before, outcome, ops,
                   in_flight, pings, normalizerVars, loginVars, callVars>>

\* Err(err) => { log::warn!(..); continue }: no batch, the next tick
FetchFailed ==
    /\ pc = "collected"
    /\ fetched.kind # "ok"
    /\ pc' = "idle"
    /\ reply' = None
    /\ fetched' = None
    /\ UNCHANGED <<history, sessionVars, conversionVars, delivered, logs, store, entries, before, outcome, ops,
                   in_flight, pings, normalizerVars, loginVars, callVars>>

\* the batch has been merged; the next tick
NextFetch ==
    /\ pc = "handed"
    /\ pc' = "idle"
    /\ reply' = None
    /\ fetched' = None
    /\ delivered' = <<>>
    /\ entries' = <<>>
    /\ UNCHANGED <<history, sessionVars, conversionVars, logs, store, before, outcome, ops,
                   in_flight, pings, normalizerVars, loginVars, callVars>>

NextFetchLogs ==
    \/ pc = "idle" /\ \E zone \in Zones, raws \in Responses : ReceiveResponse(zone, raws)
    \/ LogsReturns
    \/ TakeBatch
    \/ FetchFailed
    \/ NextFetch

SpecFetchLogs == Init /\ [][NextFetchLogs]_vars

(***************************************************************************)
(* Login (src/fritz-api/src/api/challenge.rs): the challenge of the device *)
(* and the response to it.                                                 *)
(***************************************************************************)

\* the value of a hexadecimal digit (hex::decode accepts both cases)
HexValue ==
    [c \in {"0", "1", "2", "3", "4", "5", "6", "7", "8", "9"} |-> AsciiDigit[c]] @@
    ("a" :> 10) @@ ("b" :> 11) @@ ("c" :> 12) @@ ("d" :> 13) @@ ("e" :> 14) @@ ("f" :> 15) @@
    ("A" :> 10) @@ ("B" :> 11) @@ ("C" :> 12) @@ ("D" :> 13) @@ ("E" :> 14) @@ ("F" :> 15)

\* the digits hex::encode writes
HexDigits ==
    <<"0", "1", "2", "3", "4", "5", "6", "7", "8", "9", "a", "b", "c", "d", "e", "f">>

\* str::split(sep): the fields of str, one more than it has separators
RECURSIVE Split(_, _)
Split(str, sep) ==
    IF \A i \in 1..Len(str) : str[i] # sep THEN <<str>>
    ELSE LET k == CHOOSE i \in 1..Len(str) :
                      str[i] = sep /\ \A j \in 1..(i - 1) : str[j] # sep
         IN  <<SubSeq(str, 1, k - 1)>> \o Split(SliceFrom(str, k), sep)

\* the first five fields of a split, whatever follows them
first_five(parts) ==
    IF Len(parts) < 5 THEN ParseErr("get part") ELSE ParseOk(SubSeq(parts, 1, 5))

\* get_splits(s): five times iter.next() on s.split('$')
get_splits(s) == first_five(Split(s, "$"))

\* str::parse::<u32>: an optional "+" and ASCII digits
parse_u32(str) ==
    IF str = <<>> THEN ParseErr("empty")
    ELSE IF (IF str[1] = "+" THEN Tail(str) ELSE str) = <<>>
    THEN ParseErr("invalid digit")
    ELSE IF \E i \in 1..Len(IF str[1] = "+" THEN Tail(str) ELSE str) :
                (IF str[1] = "+" THEN Tail(str) ELSE str)[i] \notin DOMAIN AsciiDigit
    THEN ParseErr("invalid digit")
    ELSE IF DigitsValue(IF str[1] = "+" THEN Tail(str) ELSE str) > MaxRounds
    THEN ParseErr("overflow")
    ELSE ParseOk(DigitsValue(IF str[1] = "+" THEN Tail(str) ELSE str))

\* hex::decode_to_slice(data, out) for out of out_len bytes (data is ASCII)
decode_to_slice(data, out_len) ==
    IF Len(data) % 2 # 0 THEN ParseErr("odd length")
    ELSE IF Len(data) \div 2 # out_len THEN ParseErr("invalid string length")
    ELSE IF \E i \in 1..Len(data) : data[i] \notin DOMAIN HexValue
    THEN ParseErr("invalid hex character")
    ELSE ParseOk([i \in 1..out_len |->
                     16 * HexValue[data[2 * i - 1]] + HexValue[data[2 * i]]])

\* hex::encode(bytes)
RECURSIVE hex_encode(_)
hex_encode(bytes) ==
    IF bytes = <<>> THEN <<>>
    ELSE <<HexDigits[(Head(bytes) \div 16) + 1], HexDigits[(Head(bytes) % 16) + 1]>>
             \o hex_encode(Tail(bytes))

\* what Challenge::from_str returns
ErrChallenge(why) == [kind |-> "err", error |-> why]
OkChallenge(salt_1, rounds_1, salt_2, rounds_2) ==
    [kind |-> "ok", salt_1 |-> salt_1, rounds_1 |-> rounds_1,
     salt_2 |-> salt_2, rounds_2 |-> rounds_2]

\* from_str after get_splits: the version check, both parses, both decodes,
\* in the order of the statements
new_challenge(version, rounds_1, rounds_2, salt_1, salt_2) ==
    IF version # <<"2">> THEN ErrChallenge("invalid version")
    ELSE IF ~rounds_1.ok THEN ErrChallenge("parse rounds_1")
    ELSE IF ~rounds_2.ok THEN ErrChallenge("parse rounds_2")
    ELSE IF ~salt_1.ok THEN ErrChallenge(salt_1.error)
    ELSE IF ~salt_2.ok THEN ErrChallenge(salt_2.error)
    ELSE OkChallenge(salt_1.value, rounds_1.value, salt_2.value, rounds_2.value)

\* from_str on the result of get_splits
from_splits(splits) ==
    IF ~splits.ok THEN ErrChallenge(splits.error)
    ELSE new_challenge(splits.value[1],
                       parse_u32(splits.value[2]), parse_u32(splits.value[4]),
                       decode_to_slice(splits.value[3], SaltLen),
                       decode_to_slice(splits.value[5], SaltLen))

\* <Challenge as FromStr>::from_str(s)
from_str(s) == from_splits(get_splits(s))

\* pbkdf2_hmac::<Sha256>(password, salt, rounds, out) for out of out_len
\* bytes: the hash is the term of its inputs
pbkdf2_hmac(password, salt, rounds, out_len) ==
    [pbkdf2 |-> password, salt |-> salt, rounds |-> rounds, len |-> out_len]

\* make_response that answers with the first salt and runs the rounds in
\* the opposite order
make_response_rounds_swapped(ch, password) ==
    [salt |-> ch.salt_1,
     hash |-> pbkdf2_hmac(pbkdf2_hmac(password, ch.salt_2, ch.rounds_2, HashLen),
                          ch.salt_1, ch.rounds_1, HashLen)]

\* Challenge::make_response(&self, password)
make_response(ch, password) ==
    [salt |-> ch.salt_2,
     hash |-> pbkdf2_hmac(pbkdf2_hmac(password, ch.salt_1, ch.rounds_1, HashLen),
                          ch.salt_2, ch.rounds_2, HashLen)]

\* <Response as Display>::fmt: "{salt}${hash}", both hex::encode; the hex
\* text of a hash is the one-element text of its term
to_string(resp) ==
    hex_encode(resp.salt) \o <<"$">> \o <<[hex |-> resp.hash]>>

\* str repeated n times
RECURSIVE Repeat(_, _)
Repeat(str, n) == IF n = 0 THEN <<>> ELSE str \o Repeat(str, n - 1)

\* parts joined by sep
RECURSIVE Join(_, _)
Join(parts, sep) ==
    IF parts = <<>> THEN <<>>
    ELSE IF Len(parts) = 1 THEN parts[1]
    ELSE parts[1] \o <<sep>> \o Join(Tail(parts), sep)

\* version fields: "2", "1", "02"
Versions == {<<"2">>, <<"1">>, <<"0", "2">>}

\* rounds_1 fields: "1", "+2", "x", "100"
Rounds1 == {<<"1">>, <<"+", "2">>, <<"x">>, <<"1", "0", "0">>}

\* rounds_2 fields: "3", "-1", ""
Rounds2 == {<<"3">>, <<"-", "1">>, <<>>}

\* salt_1 fields: 16 times "4f", 16 times "A7", 15 times "4f", 16 times "4g"
Salts1 ==
    {Repeat(<<"4", "f">>, SaltLen), Repeat(<<"A", "7">>, SaltLen),
     Repeat(<<"4", "f">>, SaltLen - 1), Repeat(<<"4", "g">>, SaltLen)}

\* salt_2 fields: 16 times "4f", 16 times "A7", 16 times "4f" and "4"
Salts2 ==
    {Repeat(<<"4", "f">>, SaltLen), Repeat(<<"A", "7">>, SaltLen),
     Repeat(<<"4", "f">>, SaltLen) \o <<"4">>}

\* what follows the five fields: nothing, a sixth field "x", an empty sixth
\* field
Extras == {<<>>, <<<<"x">>>>, <<<<>>>>}

\* passwords of the user: "pw", "x$"
Passwords == {<<"p", "w">>, <<"x", "$">>}

\* the device answers login_sid.lua with a challenge of the first n of the
\* five fields and what follows them
LoginChallenge(fields, n, extra, password) ==
    /\ pc = "idle"
    /\ pc' = "challenged"
    /\ box' = [fields |-> SubSeq(fields, 1, n) \o (IF n = 5 THEN extra ELSE <<>>),
               password |-> password]
    /\ text' = Join(SubSeq(fields, 1, n) \o (IF n = 5 THEN extra ELSE <<>>), "$")
    /\ UNCHANGED <<history, clientVars, delivered, logs, store, entries, before, outcome, ops, in_flight, pings,
                   normalizerVars, challenge, response, callVars>>

\* Challenge::from_str(challenge)
FromStr ==
    /\ pc = "challenged"
    /\ pc' = "parsed"
    /\ challenge' = from_str(text)
    /\ UNCHANGED <<history, clientVars, delivered, logs, store, entries, before, outcome, ops, in_flight, pings,
                   normalizerVars, box, text, response, callVars>>

\* challenge.make_response(&self.password).to_string()
LoginResponse ==
    /\ pc = "parsed"
    /\ challenge.kind = "ok"
    /\ pc' = "responded"
    /\ response' = to_string(make_response(challenge, box.password))
    /\ UNCHANGED <<history, clientVars, delivered, logs, store, entries, before, outcome, ops, in_flight, pings,
                   normalizerVars, box, text, challenge, callVars>>

\* the login is over: the challenge did not parse, or the response is sent
LoginEnds ==
    /\ \/ pc = "parsed" /\ challenge.kind = "err"
       \/ pc = "responded"
    /\ pc' = "idle"
    /\ box' = None
    /\ text' = None
    /\ challenge' = None
    /\ response' = None
    /\ UNCHANGED <<history, clientVars, delivered, logs, store, entries, before, outcome, ops, in_flight, pings,
                   normalizerVars, callVars>>

NextLogin ==
    \/ pc = "idle" /\ \E version \in Versions, rounds_1 \in Rounds1, salt_1 \in Salts1,
                         rounds_2 \in Rounds2, salt_2 \in Salts2, n \in 1..5,
                         extra \in Extras, password \in Passwords :
            LoginChallenge(<<version, rounds_1, salt_1, rounds_2, salt_2>>, n, extra,
                           password)
    \/ FromStr
    \/ LoginResponse
    \/ LoginEnds

SpecLogin == Init /\ [][NextLogin]_vars

(***************************************************************************)
(* The session of the Client (src/fritz-app/src/api/client.rs and          *)
(* session.rs): check_or_renew_session_id, login and logout over the       *)
(* stored session id.                                                      *)
(***************************************************************************)

\* what no step of the Client's session handling changes
collectorVars ==
    <<history, delivered, reply, fetched, conversionVars, logs, store, entries, before, outcome, ops,
      in_flight, pings, normalizerVars, loginVars, callVars>>

\* const INVALID_SESSION_ID: [u8; 8] = [0, 0, 0, 0, 0, 0, 0, 0]
INVALID_SESSION_ID == [i \in 1..SidLen |-> 0]

\* Option<SessionId>: Some(id)
Some(id) == [none |-> FALSE, id |-> id]

\* SessionId::is_valid
is_valid(id) == id # INVALID_SESSION_ID

\* <SessionId as FromStr>::from_str
SessionId_from_str(str) == decode_to_slice(str, SidLen)

\* SessionInfo::from_xml(&text)?.session_id for the answer to a request: the
\* request failed, the <SID> did not parse, or the session id
from_xml(answer) ==
    IF ~answer.ok THEN ParseErr("request")
    ELSE IF ~SessionId_from_str(answer.sid).ok THEN ParseErr("parse session info xml")
    ELSE SessionId_from_str(answer.sid)

ErrSession(why) == [kind |-> "err", error |-> why, id |-> None]
OkSession(id) == [kind |-> "ok", error |-> "", id |-> id]

\* check_session_id that takes any valid session id of the device for the
\* stored one
check_session_id_accepts_other(stored, answer) ==
    IF ~from_xml(answer).ok THEN ErrSession(from_xml(answer).error)
    ELSE IF ~is_valid(from_xml(answer).value)
    THEN OkSession(None)
    ELSE OkSession(stored)

\* Client::check_session_id with a stored session id, once the device has
\* answered the check request
check_session_id(stored, answer) ==
    IF ~from_xml(answer).ok THEN ErrSession(from_xml(answer).error)
    ELSE IF ~is_valid(from_xml(answer).value) \/ from_xml(answer).value # stored.id
    THEN OkSession(None)
    ELSE OkSession(Some(from_xml(answer).value))

\* the end of login that stores whatever session id the response carries
login_checks_accepts_zero(answer) ==
    IF ~from_xml(answer).ok THEN ErrSession(from_xml(answer).error)
    ELSE OkSession(Some(from_xml(answer).value))

\* Client::login after login_response: the session id of the response is
\* checked
login_checks(answer) ==
    IF ~from_xml(answer).ok THEN ErrSession(from_xml(answer).error)
    ELSE IF ~is_valid(from_xml(answer).value)
    THEN ErrSession("invalid session id after login")
    ELSE OkSession(Some(from_xml(answer).value))

\* the end of logout that forgets the session id whether or not the request
\* went through
logout_request_forgets(stored, answer) ==
    IF ~answer.ok THEN [result |-> ErrSession("request"), stored |-> None]
    ELSE [result |-> OkSession(None), stored |-> None]

\* Client::logout after the logout request: `?` on the request, then
\* *self.session_id.lock() = None
logout_request(stored, answer) ==
    IF ~answer.ok THEN [result |-> ErrSession("request"), stored |-> stored]
    ELSE [result |-> OkSession(None), stored |-> None]

\* the <SID> of an answer: sixteen zeros, "00000000000000a1",
\* "00000000000000A1", "00000000000000b2", "0"
SidTexts ==
    {Repeat(<<"0">>, 16),
     Repeat(<<"0">>, 14) \o <<"a", "1">>,
     Repeat(<<"0">>, 14) \o <<"A", "1">>,
     Repeat(<<"0">>, 14) \o <<"b", "2">>,
     <<"0">>}

\* what comes back for a request: an error of the transport or of the HTTP
\* status, or a session info with a <SID>
Answers == {[ok |-> FALSE, sid |-> <<>>]} \cup [ok : {TRUE}, sid : SidTexts]

\* an operation of the Client is called
Call(operation) ==
    /\ pc = "idle"
    /\ pc' = IF operation = "login" THEN "challenge" ELSE "check"
    /\ calling' = operation
    /\ held' = session_id
    /\ requests' = <<>>
    /\ answers' = <<>>
    /\ result' = None
    /\ UNCHANGED <<session_id, collectorVars>>

\* what check_or_renew_session_id and logout do with the Ok of
\* check_session_id
AfterCheck(checked) ==
    IF checked.kind = "err"
    THEN /\ pc' = "returned"
         /\ result' = checked
         /\ UNCHANGED session_id
    ELSE IF calling = "check_or_renew"
    THEN IF checked.id = None
         THEN \* None => self.login().await
              /\ pc' = "challenge"
              /\ UNCHANGED <<result, session_id>>
         ELSE \* Some(session_id) => Ok(session_id)
              /\ pc' = "returned"
              /\ result' = checked
              /\ UNCHANGED session_id
    ELSE IF checked.id = None
         THEN \* logout: *self.session_id.lock() = None; return Ok(())
              /\ pc' = "returned"
              /\ result' = OkSession(None)
              /\ session_id' = None
         ELSE /\ pc' = "logout"
              /\ UNCHANGED <<result, session_id>>

\* check_session_id without a stored session id: Ok(None), no request
CheckWithoutId ==
    /\ pc = "check"
    /\ session_id = None
    /\ AfterCheck(OkSession(None))
    /\ UNCHANGED <<calling, held, requests, answers, collectorVars>>

\* check_session_id with a stored session id: the check request is sent and
\* answered
CheckAnswered(answer) ==
    /\ pc = "check"
    /\ session_id # None
    /\ requests' = Append(requests, "check-session-id")
    /\ answers' = Append(answers, answer)
    /\ AfterCheck(check_session_id(session_id, answer))
    /\ UNCHANGED <<calling, held, collectorVars>>

\* login_challenge is answered; login_response bails out when the user is
\* not among the users of the challenge
ChallengeAnswered(answer, has_user) ==
    /\ pc = "challenge"
    /\ requests' = Append(requests, "login-challenge")
    /\ answers' = Append(answers, answer)
    /\ IF ~from_xml(answer).ok
       THEN pc' = "returned" /\ result' = ErrSession(from_xml(answer).error)
       ELSE IF ~has_user
       THEN pc' = "returned" /\ result' = ErrSession("trying to login with invalid user")
       ELSE pc' = "response" /\ UNCHANGED result
    /\ UNCHANGED <<session_id, calling, held, collectorVars>>

\* the response request of login_response is answered and login ends
ResponseAnswered(answer) ==
    /\ pc = "response"
    /\ pc' = "returned"
    /\ requests' = Append(requests, "login-response")
    /\ answers' = Append(answers, answer)
    /\ result' = login_checks(answer)
    /\ session_id' = IF login_checks(answer).kind = "ok"
                     THEN login_checks(answer).id
                     ELSE session_id
    /\ UNCHANGED <<calling, held, collectorVars>>

\* the logout request is answered and logout ends
LogoutAnswered(answer) ==
    /\ pc = "logout"
    /\ pc' = "returned"
    /\ requests' = Append(requests, "logout")
    /\ answers' = Append(answers, answer)
    /\ result' = logout_request(session_id, answer).result
    /\ session_id' = logout_request(session_id, answer).stored
    /\ UNCHANGED <<calling, held, collectorVars>>

\* the caller goes on
Return ==
    /\ pc = "returned"
    /\ pc' = "idle"
    /\ calling' = None
    /\ held' = None
    /\ requests' = <<>>
    /\ answers' = <<>>
    /\ result' = None
    /\ UNCHANGED <<session_id, collectorVars>>

NextSession ==
    \/ \E operation \in {"login", "check_or_renew", "logout"} : Call(operation)
    \/ CheckWithoutId
    \/ \E answer \in Answers : CheckAnswered(answer)
    \/ \E answer \in Answers, has_user \in BOOLEAN : ChallengeAnswered(answer, has_user)
    \/ \E answer \in Answers : ResponseAnswered(answer)
    \/ \E answer \in Answers : LogoutAnswered(answer)
    \/ Return

SpecSession == Init /\ [][NextSession]_vars

(***************************************************************************)
(* Storage of a fritz::Log (src/fritz-app/src/fritz/mod.rs): From<Log> for *)
(* db::Log, TryFrom<db::Log> for Log, and the timestamps of db::util       *)
(* (src/fritz-api/src/db/mod.rs).                                          *)
(***************************************************************************)

\* what no step of a conversion changes
otherVars ==
    <<history, delivered, reply, fetched, sessionVars, logs, store, entries, before, outcome,
      ops, in_flight, pings, normalizerVars, loginVars, callVars>>

\* an instant is counted in ticks of half a millisecond since the epoch, so
\* that a DateTime can lie between two milliseconds
TicksPerMilli == 2

\* the milliseconds chrono can represent, scaled: timestamp_millis_opt has
\* no DateTime for a timestamp beyond them
MaxMillis == 4

\* the UTC offset of the zone at an instant, in hours: Utc, and a Local zone
\* that changes its offset at millisecond 2
offset_from_utc(zone, millis) ==
    IF zone = "Utc" THEN 0
    ELSE IF millis < 2 THEN 1 ELSE 2

\* DateTime<Tz>: the instant and the offset of its zone at that instant
DateTimeAt(ticks, zone) ==
    [instant |-> ticks, offset |-> offset_from_utc(zone, ticks \div TicksPerMilli)]

\* DateTime::with_timezone
with_timezone(datetime, zone) == DateTimeAt(datetime.instant, zone)

\* DateTime::timestamp_millis: whole milliseconds since the epoch, rounded
\* down
timestamp_millis(datetime) == datetime.instant \div TicksPerMilli

\* Utc.timestamp_millis_opt(timestamp).single()
timestamp_millis_opt(timestamp) ==
    IF timestamp < -MaxMillis \/ timestamp > MaxMillis THEN None
    ELSE [none |-> FALSE, value |-> DateTimeAt(timestamp * TicksPerMilli, "Utc")]

\* db::util::local_to_utc_timestamp on a DateTime<Local>
local_to_utc_timestamp_millis(local) == timestamp_millis(with_timezone(local, "Utc"))

\* db::util::utc_timestamp_to_local
utc_timestamp_to_local(timestamp) ==
    IF timestamp_millis_opt(timestamp) = None THEN ParseErr("utc time from timestamp")
    ELSE ParseOk(with_timezone(timestamp_millis_opt(timestamp).value, "Local"))

\* parse_repetition that reads a row with one of the two columns set as a
\* row without repetition
parse_repetition_lenient(datetime, count) ==
    IF datetime # None /\ count # None
    THEN IF ~utc_timestamp_to_local(datetime.value).ok
         THEN utc_timestamp_to_local(datetime.value)
         ELSE ParseOk([datetime |-> utc_timestamp_to_local(datetime.value).value,
                       count |-> count.value])
    ELSE ParseOk(None)

\* fritz::util::parse_repetition
parse_repetition(datetime, count) ==
    IF datetime # None /\ count # None
    THEN IF ~utc_timestamp_to_local(datetime.value).ok
         THEN utc_timestamp_to_local(datetime.value)
         ELSE ParseOk([datetime |-> utc_timestamp_to_local(datetime.value).value,
                       count |-> count.value])
    ELSE IF datetime = None /\ count = None THEN ParseOk(None)
    ELSE ParseErr("invalid repetition")

\* Option<i64>::Some
SomeI64(value) == [none |-> FALSE, value |-> value]

\* <db::Log as From<Log>>::from
db_Log_from(value) ==
    [id |-> None,
     datetime |-> local_to_utc_timestamp_millis(value.datetime),
     message |-> value.message,
     message_id |-> value.message_id,
     category_id |-> value.category_id,
     repetition_datetime |->
         IF value.repetition = None THEN None
         ELSE SomeI64(local_to_utc_timestamp_millis(value.repetition.datetime)),
     repetition_count |->
         IF value.repetition = None THEN None ELSE SomeI64(value.repetition.count)]

\* <Log as TryFrom<db::Log>>::try_from
Log_try_from(value) ==
    IF ~utc_timestamp_to_local(value.datetime).ok
    THEN utc_timestamp_to_local(value.datetime)
    ELSE IF ~parse_repetition(value.repetition_datetime, value.repetition_count).ok
    THEN parse_repetition(value.repetition_datetime, value.repetition_count)
    ELSE ParseOk([datetime |-> utc_timestamp_to_local(value.datetime).value,
                  message |-> value.message,
                  message_id |-> value.message_id,
                  category_id |-> value.category_id,
                  repetition |->
                      parse_repetition(value.repetition_datetime,
                                       value.repetition_count).value])

\* the instants of the records: on a millisecond and between two, before
\* and after the epoch and the change of the Local offset
RecordTicks == {-3, -2, 0, 3, 4, 8}

\* the first_seen instants and the counts of a repetition
RepetitionTicks == {-2, 1, 4}
RepetitionCounts == {2, MaxInt}

StoredMessages == {<<"a">>, <<"a", " ", "[", "2">>}

\* a fritz::Log the program can hold, and ones with a timestamp between two
\* milliseconds
StoredLogs ==
    [datetime : {DateTimeAt(t, "Local") : t \in RecordTicks},
     message : StoredMessages,
     message_id : {1, -MaxInt},
     category_id : {1},
     repetition : {None} \cup
         [datetime : {DateTimeAt(t, "Local") : t \in RepetitionTicks},
          count : RepetitionCounts]]

\* the rows a `logs` table can hold: any two nullable repetition columns,
\* any i64 timestamp
StoredRows ==
    [id : {SomeI64(1)},
     datetime : {-MaxMillis - 1, -1, 0, 2, MaxMillis + 1},
     message : {<<"a">>},
     message_id : {1},
     category_id : {1},
     repetition_datetime : {None, SomeI64(-1), SomeI64(2), SomeI64(MaxMillis + 1)},
     repetition_count : {None, SomeI64(2), SomeI64(0)}]

\* a Log is converted for the database
StoreLog(log) ==
    /\ pc = "idle"
    /\ pc' = "row"
    /\ original' = log
    /\ db_row' = db_Log_from(log)
    /\ UNCHANGED <<restored, elapsed, duration_ms, otherVars>>

\* a row comes from the database
ReadRow(found) ==
    /\ pc = "idle"
    /\ pc' = "row"
    /\ original' = None
    /\ db_row' = found
    /\ UNCHANGED <<restored, elapsed, duration_ms, otherVars>>

\* the row is converted into a Log
LoadRow ==
    /\ pc = "row"
    /\ pc' = "loaded"
    /\ restored' = Log_try_from(db_row)
    /\ UNCHANGED <<original, db_row, elapsed, duration_ms, otherVars>>

\* the values are dropped
DropLog ==
    /\ pc = "loaded"
    /\ pc' = "idle"
    /\ original' = None
    /\ db_row' = None
    /\ restored' = None
    /\ UNCHANGED <<elapsed, duration_ms, otherVars>>

NextStorage ==
    \/ pc = "idle" /\ \E log \in StoredLogs : StoreLog(log)
    \/ pc = "idle" /\ \E found \in StoredRows : ReadRow(found)
    \/ LoadRow
    \/ DropLog

SpecStorage == Init /\ [][NextStorage]_vars

(***************************************************************************)
(* elapsed_ms of the two clients (src/fritz-app/src/api/client.rs and      *)
(* src/src/login/client.rs) and the duration_ms they record for a request. *)
(***************************************************************************)

\* the width of an i64, scaled: values -2^(DurationBits-1) .. 2^(DurationBits-1)-1
DurationBits == 4

\* the largest u128 that Duration::as_millis returns, scaled: it lies
\* beyond i64::MAX and beyond 2^DurationBits
MaxElapsed == 40

\* i64::MAX
I64_MAX == 2 ^ (DurationBits - 1) - 1

\* `as i64` on a u128: the low bits, read as two's complement
as_i64(value) ==
    IF value % (2 ^ DurationBits) > I64_MAX
    THEN (value % (2 ^ DurationBits)) - 2 ^ DurationBits
    ELSE value % (2 ^ DurationBits)

\* Ord::min, Ord::max
min(a, b) == IF a <= b THEN a ELSE b
max(a, b) == IF a >= b THEN a ELSE b

\* elapsed_ms that casts without a clamp
elapsed_ms_unclamped(millis) == as_i64(millis)

\* elapsed_ms of fritz-app: as_millis().min(i64::MAX as u128) as i64
elapsed_ms(millis) == as_i64(min(millis, I64_MAX))

\* elapsed_ms of src/login: as_millis().max(i64::MAX as u128) as i64
login_elapsed_ms(millis) == as_i64(max(millis, I64_MAX))

\* request_with_inner of fritz-app records the duration of a request that
\* took `millis`
RecordDuration(millis) ==
    /\ pc = "idle"
    /\ pc' = "recorded"
    /\ elapsed' = millis
    /\ duration_ms' = [client |-> "fritz-app", value |-> elapsed_ms(millis)]
    /\ UNCHANGED <<original, db_row, restored, otherVars>>

\* request_with_inner of src/login records the duration of a request that
\* took `millis`
LoginRecordDuration(millis) ==
    /\ pc = "idle"
    /\ pc' = "recorded"
    /\ elapsed' = millis
    /\ duration_ms' = [client |-> "login", value |-> login_elapsed_ms(millis)]
    /\ UNCHANGED <<original, db_row, restored, otherVars>>

\* the request's row is written and the next request starts
NextRequest ==
    /\ pc = "recorded"
    /\ pc' = "idle"
    /\ UNCHANGED <<conversionVars, otherVars>>

NextDuration ==
    \/ pc = "idle" /\ \E millis \in 0..MaxElapsed : RecordDuration(millis)
    \/ pc = "idle" /\ \E millis \in 0..MaxElapsed : LoginRecordDuration(millis)
    \/ NextRequest

SpecDuration == Init /\ [][NextDuration]_vars

(***************************************************************************)
(* Properties of Connection::append_logs, stated on the run that has just  *)
(* merged: `before` is the table the merge started from, `entries` the     *)
(* batch, `logs` the table it left.                                        *)
(***************************************************************************)

Merged == pc = "merged"

\* the rows a batch becomes when all of it is inserted
Rows(es) == [i \in 1..Len(es) |-> ToRow(es[i])]

\* the rows the merge added to the table
Written == SubSeq(logs, Len(before) + 1, Len(logs))

\* sorted non-decreasing by time
NonDecreasing(es) == \A i, j \in 1..Len(es) : i < j => es[i].time <= es[j].time

\* a batch the merge accepts: non-empty and sorted non-decreasing by time
ValidBatch(es) == es # <<>> /\ NonDecreasing(es)

\* the merge read the latest row: the batch passed the assertion and the
\* SELECT succeeded
ReadLatest == Merged /\ ValidBatch(entries) /\ ops # <<>> /\ ops[1] = "latest_logs"

\* the most recent row when the merge started
Latest == IF before = <<>> THEN None ELSE LogEntry_new(before[Len(before)])

\* no INSERT of the merge failed
InsertsOk == \A i \in 1..Len(ops) : ops[i] \notin {"insert_failed", "insert_rejected"}

NoInsertIssued == \A i \in 1..Len(ops) : ops[i] \in {"latest_logs", "latest_logs_failed"}

\* this variant's identity key: (time, msg_id)
SameKey(a, b) == a.time = b.time /\ a.msg_id = b.msg_id

EntirelyNewer == ReadLatest /\ Latest # None /\ entries[1].time > Latest.time

EntirelyOlder == ReadLatest /\ Latest # None /\ entries[Len(entries)].time < Latest.time

PartialOverlap == ReadLatest /\ Latest # None /\ ~EntirelyNewer /\ ~EntirelyOlder

\* 1-based indices of the batch records that carry latest's identity key
PivotCandidates == {i \in 1..Len(entries) : SameKey(entries[i], Latest)}

\* the merge wrote `es` and nothing else: a prefix of it when an INSERT
\* failed, all of it (and the count returned) when none did
WroteInOrder(es) ==
    /\ Len(logs) >= Len(before)
    /\ SubSeq(logs, 1, Len(before)) = before
    /\ IsPrefix(Written, Rows(es))
    /\ InsertsOk => /\ Written = Rows(es)
                    /\ outcome = Ok(Len(es))

\* C2: the table read newest first (latest_logs without a limit) is sorted
\* non-increasing by time after any sequence of merges.
C2_OrderPreserved ==
    LET read == latest_logs(logs, None)
    IN  \A i \in 1..(Len(read) - 1) : read[i].time >= read[i + 1].time

C2_Witness ==
    /\ Merged
    /\ outcome.kind = "ok"
    /\ before # <<>>
    /\ Len(logs) > Len(before) + 1
    /\ logs[Len(logs)].logged_at > logs[1].logged_at

\* C3: merging a valid batch that has just been merged successfully a second
\* time (no store fault) writes nothing, issues no INSERT and returns 0 new
\* entries.
C3_Idempotent ==
    (Merged /\ ValidBatch(entries) /\ outcome.kind = "ok") =>
        LET again == append_logs(logs, entries, TRUE, NoFault)
        IN  /\ again.rows = logs
            /\ again.ops = <<"latest_logs">>
            /\ again.outcome = Ok(0)

C3_Witness ==
    /\ Merged
    /\ ValidBatch(entries)
    /\ outcome.kind = "ok"
    /\ before # <<>>
    /\ outcome.count > 0
    /\ outcome.count < Len(entries)

C8_EntirelyOlder ==
    EntirelyOlder =>
        /\ logs = before
        /\ NoInsertIssued
        /\ outcome = Ok(0)

C8_Witness ==
    /\ EntirelyOlder
    /\ Len(entries) > 1

DbReadLatest ==
    /\ Merged
    /\ entries # <<>>
    /\ IsSortedByTimestamp(entries)
    /\ ops # <<>>
    /\ ops[1] = "select_latest"

\* no store operation of the merge was cut short by the connection
DbNoFault == \A i \in 1..Len(ops) : ops[i] \notin {"replace_failed", "append_failed"}

\* the most recent row when the merge started
DbLatest == select_latest(before)

DbPartialOverlap ==
    /\ DbReadLatest
    /\ DbLatest # None
    /\ ~(earliest_timestamp_utc(entries[1]) > latest_timestamp_utc(DbLatest))
    /\ ~(latest_timestamp_utc(entries[Len(entries)]) < latest_timestamp_utc(DbLatest))

\* 1-based indices of the batch records that carry latest's identity key
DbPivots == {i \in 1..Len(entries) : identity_key(entries[i]) = identity_key(DbLatest)}

\* positions of the rows of `table` that carry `key`
RowsWithKey(table, key) == {i \in 1..Len(table) : identity_key(table[i]) = key}

\* C1: the store never holds two rows with the same identity key
\* (earliest_timestamp, message_id, category_id).
C1_NoDuplicateKeys ==
    \A i, j \in 1..Len(store) :
        i # j => identity_key(store[i]) # identity_key(store[j])

\* C4: in a partial overlap whose batch holds a pivot, a pivot whose
\* (timestamp, repetition) differs from latest's replaces latest's row in
\* place: one replace is issued, exactly one row carries that identity key
\* afterwards and it holds the pivot's fields; an equal pivot causes no
\* replace.
C4_PivotReplacesLatest ==
    (DbPartialOverlap /\ DbPivots # {} /\ DbNoFault) =>
        LET pivot == entries[Max(DbPivots)]
            hit == RowsWithKey(store, identity_key(DbLatest))
        IN  IF <<pivot.datetime, pivot.repetition>>
                   # <<DbLatest.datetime, DbLatest.repetition>>
            THEN /\ \E i \in 1..Len(ops) : ops[i] = "replace"
                 /\ Cardinality(hit) = 1
                 /\ \A i \in hit : store[i] = pivot
                 /\ hit = RowsWithKey(before, identity_key(DbLatest))
            ELSE \A i \in 1..Len(ops) : ops[i] \in {"select_latest", "append"}

\* C4 in the stores that hold latest's identity key once
C4_PivotReplacesSingleRow ==
    Cardinality(RowsWithKey(before, identity_key(DbLatest))) = 1 => C4_PivotReplacesLatest

C4_Witness ==
    /\ DbPartialOverlap
    /\ DbPivots # {}
    /\ DbNoFault
    /\ Cardinality(RowsWithKey(before, identity_key(DbLatest))) = 1
    /\ entries[Max(DbPivots)] # DbLatest
    /\ Max(DbPivots) < Len(entries)

\* the store operations of the merge that are `op`
OpCount(op) == Cardinality({i \in 1..Len(ops) : ops[i] = op})

\* the rows the merge added to the store
DbWritten == SubSeq(store, Len(before) + 1, Len(store))

\* C11: the sequence a successful merge returns is the pivot, only if a
\* replace was issued for it, followed by the rows the merge appended, which
\* are a suffix of the batch in batch order; its length is the number of
\* replaces plus the number of appends of that merge.
C11_IncorporatedResult ==
    (Merged /\ outcome.kind = "ok" /\ entries # <<>>) =>
        LET replaced == IF OpCount("replace") = 0
                        THEN <<>>
                        ELSE <<entries[Max(DbPivots)]>>
        IN  /\ OpCount("replace") <= 1
            /\ outcome.upserted = replaced \o DbWritten
            /\ DbWritten = SubSeq(entries, Len(entries) - Len(DbWritten) + 1, Len(entries))
            /\ Len(outcome.upserted) = OpCount("replace") + OpCount("append")
            /\ OpCount("replace") = 1 =>
                   /\ Len(DbWritten) = Len(entries) - Max(DbPivots)
                   /\ \E i \in 1..Len(before) :
                          /\ before[i] # store[i]
                          /\ store[i] = entries[Max(DbPivots)]

C11_Witness ==
    /\ Merged
    /\ outcome.kind = "ok"
    /\ OpCount("replace") = 1
    /\ OpCount("append") = 1
    /\ Len(entries) > 1

\* when the event of a record was first logged
FirstSeen(log) == IF log.repetition = None THEN log.datetime ELSE log.repetition.datetime

\* two records of one event: the same identity key
SameEvent(a, b) ==
    /\ FirstSeen(a) = FirstSeen(b)
    /\ a.message_id = b.message_id
    /\ a.category_id = b.category_id

\* how often the event of a record has been logged
TimesLogged(log) == IF log.repetition = None THEN 1 ELSE log.repetition.count

\* `new` is a later collapsed repeat of `old`
Advances(old, new) ==
    /\ SameEvent(old, new)
    /\ new.datetime >= old.datetime
    /\ TimesLogged(new) > TimesLogged(old)

\* C12: a store built from one-record polls of a single event holds at most
\* one row; merging the next one-record poll of that event, advanced in
\* (timestamp, repetition.count), into it leaves exactly one row, equal to
\* the record just merged.
C12_RepeatsCollapse ==
    (/\ Merged
     /\ Len(entries) = 1
     /\ ops # <<>>
     /\ ops[1] = "select_latest"
     /\ DbNoFault
     /\ Len(before) <= 1
     /\ before # <<>> => Advances(before[1], entries[1])) =>
        /\ outcome.kind = "ok"
        /\ store = <<entries[1]>>

C12_Witness ==
    /\ Merged
    /\ DbNoFault
    /\ Len(before) = 1
    /\ Len(entries) = 1
    /\ before[1].repetition = None
    /\ Advances(before[1], entries[1])
    /\ entries[1].datetime > before[1].datetime
    /\ store = <<entries[1]>>
    /\ OpCount("replace") = 1

(***************************************************************************)
(* Failures of the store in Connection::append_logs                        *)
(***************************************************************************)

\* an INSERT of the merge failed
InsertFailed ==
    /\ ReadLatest
    /\ ops[Len(ops)] \in {"insert_failed", "insert_rejected"}

\* the rows the entries the merge selected become: what the merge writes when
\* the connection carries out every INSERT
Selected == Rows(IF Latest = None THEN entries ELSE new_entries(Latest, entries))

\* C13: when an INSERT fails in the middle of a merge, the rows of the table
\* before the merge and the rows inserted before the failure stay, nothing is
\* inserted after the failing INSERT, and the rows written are a proper
\* prefix of the rows the merge selected and a prefix of the rows the merge
\* of the same batch writes on a connection that carries out every INSERT.
C13_PartialFailureIsPrefix ==
    InsertFailed =>
        /\ outcome = Err("insert")
        /\ Len(logs) >= Len(before)
        /\ SubSeq(logs, 1, Len(before)) = before
        /\ Len(Written) = OpCount("insert")
        /\ \A i \in 1..(Len(ops) - 1) : ops[i] \in {"latest_logs", "insert"}
        /\ IsPrefix(Written, Selected)
        /\ Len(Written) < Len(Selected)
        /\ IsPrefix(logs, append_logs(before, entries, TRUE, NoFault).rows)

C13_Witness ==
    /\ InsertFailed
    /\ ops[Len(ops)] = "insert_failed"
    /\ before # <<>>
    /\ Len(Written) > 0
    /\ Len(Written) + 1 < Len(Selected)

\* no two rows of `table` carry the same (logged_at, message_id)
NoDuplicateRows(table) ==
    \A i, j \in 1..Len(table) : i # j => table[i] # table[j]

\* C14: after a merge of batch B in which an INSERT failed, merging B again
\* over a connection on which nothing fails leaves the table as one merge of
\* B into the original table over such a connection leaves it, with no row
\* duplicated.
C14_RetryConverges ==
    InsertFailed =>
        LET retry == append_logs(logs, entries, TRUE, NoFault)
            once == append_logs(before, entries, TRUE, NoFault)
        IN  retry.outcome.kind = "ok" =>
                /\ retry.rows = once.rows
                /\ NoDuplicateRows(retry.rows)

\* C14 for the batches the table can take: when the merge of B into the
\* original table succeeds over a connection on which nothing fails, the
\* retry succeeds as well and leaves the same table.
C14_RetryConvergesWhenMergeable ==
    InsertFailed =>
        LET retry == append_logs(logs, entries, TRUE, NoFault)
            once == append_logs(before, entries, TRUE, NoFault)
        IN  once.outcome.kind = "ok" =>
                /\ retry.outcome.kind = "ok"
                /\ retry.rows = once.rows
                /\ NoDuplicateRows(retry.rows)

\* C15: a merge whose batch passes the sortedness assertion performs exactly
\* one read of the latest row, as its first store operation; every later
\* operation is an INSERT, issued only after the read succeeded, one per row
\* written; this variant issues no replace.  A batch that fails the assertion
\* causes no store operation.
C15_StoreOperationOrder ==
    Merged =>
        /\ OpCount("latest_logs") + OpCount("latest_logs_failed")
               = (IF NonDecreasing(entries) THEN 1 ELSE 0)
        /\ ops # <<>> => ops[1] \in {"latest_logs", "latest_logs_failed"}
        /\ \A i \in 2..Len(ops) :
               /\ ops[1] = "latest_logs"
               /\ ops[i] \in {"insert", "insert_failed", "insert_rejected"}
               /\ i < Len(ops) => ops[i] = "insert"
        /\ Len(logs) = Len(before) + OpCount("insert")
        /\ OpCount("replace") = 0

C15_Witness ==
    /\ Merged
    /\ before # <<>>
    /\ ops = <<"latest_logs", "insert", "insert">>
    /\ Len(entries) = 3

\* C15 for the merge of Database::append_new_logs: one read of the latest
\* row first, then at most one replace, then the appends
C15_DatabaseOperationOrder ==
    Merged =>
        /\ OpCount("select_latest") + OpCount("select_latest_failed")
               = (IF IsSortedByTimestamp(entries) THEN 1 ELSE 0)
        /\ ops # <<>> => ops[1] \in {"select_latest", "select_latest_failed"}
        /\ \A i \in 2..Len(ops) :
               /\ ops[1] = "select_latest"
               /\ ops[i] \in {"replace", "replace_failed", "replace_miscount",
                              "append", "append_failed"}
               /\ ops[i] \in {"replace", "replace_failed", "replace_miscount"} => i = 2

(***************************************************************************)
(* The poll driver                                                         *)
(***************************************************************************)

\* C16: when the fetch of a tick fails the driver does not terminate and
\* does not call the merge for that tick: it goes back to waiting for the
\* next tick with the store untouched and no merge in flight; the driver ends
\* only when a merge returned an error.
C16_FetchFailureRetries ==
    [][/\ (pc = "polling" /\ pc' # "fetched") =>
              /\ pc' = "idle"
              /\ store' = store
              /\ in_flight' = 0
       /\ pc' = "exited" => (pc = "merged" /\ outcome.kind = "err")]_vars

\* C17: at most one call of append_new_logs is in flight at any time, none
\* while the driver waits for a tick, fetches or holds a fetched batch, and
\* a step of the ping loop changes table `pings` only.
C17_SerializedPolls ==
    /\ [](/\ in_flight \in {0, 1}
          /\ in_flight = 1 <=> pc = "merging")
    /\ [][pings' # pings =>
              /\ store' = store
              /\ logs' = logs
              /\ pc' = pc
              /\ in_flight' = in_flight]_vars

C17_Witness ==
    /\ pc = "merging"
    /\ in_flight = 1
    /\ pings > 0
    /\ store # <<>>

(***************************************************************************)
(* Properties of the normalizer, stated on the entry that has just been    *)
(* normalized: `device` is what the device wrote, `raw` the fields         *)
(* received, `normalized` what Log::try_from returned.  What the strings   *)
(* of the device mean is tabulated here, apart from the parsers.           *)
(***************************************************************************)

Normalized == pc = "normalized"

\* the calendar day a date string of the device stands for
DayOf ==
    (<<"0", "1", ".", "0", "1", ".", "2", "3">> :> [year |-> 2023, month |-> 1, day |-> 1]) @@
    (<<"1", ".", "1", ".", "2", "3">> :> [year |-> 2023, month |-> 1, day |-> 1]) @@
    (<<"2", "6", ".", "0", "3", ".", "2", "3">> :> [year |-> 2023, month |-> 3, day |-> 26]) @@
    (<<"2", "9", ".", "1", "0", ".", "2", "3">> :> [year |-> 2023, month |-> 10, day |-> 29])

\* the time of day a time string of the device stands for
TimeOfDay ==
    (<<"0", "1", ":", "0", "1", ":", "0", "1">> :> [hour |-> 1, minute |-> 1, second |-> 1]) @@
    (<<"0", "2", ":", "3", "0", ":", "0", "0">> :> [hour |-> 2, minute |-> 30, second |-> 0])

\* the integer a number string of the device stands for
IntegerOf ==
    (<<"7">> :> 7) @@ (<<"-", "7">> :> 0 - 7) @@ (<<"1">> :> 1) @@
    (<<"3">> :> 3) @@ (<<"0", "3">> :> 3) @@ (<<"1", "0", "0">> :> 100)

\* str stands for an integer of 64 bits (scaled to MaxInt)
IsInteger(str) ==
    str \in DOMAIN IntegerOf /\ 0 - MaxInt - 1 <= IntegerOf[str] /\ IntegerOf[str] <= MaxInt

\* date and time are a calendar day and a time of day that the zone has
\* exactly one local time for
IsUniqueLocalTime(date, time, zone) ==
    /\ date \in DOMAIN DayOf
    /\ time \in DOMAIN TimeOfDay
    /\ ~(/\ zone = "Europe/Berlin"
         /\ DayOf[date] \in {[year |-> 2023, month |-> 3, day |-> 26], [year |-> 2023, month |-> 10, day |-> 29]}
         /\ TimeOfDay[time].hour = 2)

\* the local time date and time stand for
LocalTime(date, time) ==
    [year |-> DayOf[date].year, month |-> DayOf[date].month, day |-> DayOf[date].day,
     hour |-> TimeOfDay[time].hour, minute |-> TimeOfDay[time].minute,
     second |-> TimeOfDay[time].second]

\* str is one or more digits
IsDigits(str) == str # <<>> /\ \A i \in 1..Len(str) : str[i] \in RegexDigit

\* str is three runs of digits separated by sep
IsThreeNumbers(str, sep) ==
    \E i, j \in 1..Len(str) :
        /\ i < j
        /\ str[i] = sep
        /\ str[j] = sep
        /\ IsDigits(SubSeq(str, 1, i - 1))
        /\ IsDigits(SubSeq(str, i + 1, j - 1))
        /\ IsDigits(SubSeq(str, j + 1, Len(str)))

\* the raw message ends in " [<count> Meldungen seit <date> <time>]"
HasSuffix ==
    /\ device.annotation # None
    /\ device.tail = <<>>
    /\ IsDigits(device.annotation.count)
    /\ IsThreeNumbers(device.annotation.date, ".")
    /\ IsThreeNumbers(device.annotation.time, ":")

\* the count and the date/time of the suffix parse
SuffixParses ==
    /\ IsInteger(device.annotation.count)
    /\ IsUniqueLocalTime(device.annotation.date, device.annotation.time, device.zone)

\* the date, time, message id and category id fields of the entry are valid
FieldsValid ==
    /\ IsUniqueLocalTime(raw.date, raw.time, device.zone)
    /\ IsInteger(raw.message_id)
    /\ IsInteger(raw.category_id)

\* C18: repetition extraction.  An entry whose raw message ends in
\* " [<count> Meldungen seit <date> <time>]" and whose fields all parse
\* normalizes to a record whose message is the raw message without that
\* suffix and whose repetition is the date/time and the count of the suffix;
\* an entry whose raw message has no such suffix normalizes with its message
\* unchanged and without a repetition.
C18_RepetitionExtraction ==
    Normalized =>
        /\ normalized.kind # "panic"
        /\ (FieldsValid /\ HasSuffix /\ SuffixParses) =>
               /\ normalized.kind = "ok"
               /\ normalized.log.message = device.body
               /\ normalized.log.message \o FormatAnnotation(device.annotation)
                      = raw.message
               /\ normalized.log.repetition =
                      [datetime |-> LocalTime(device.annotation.date,
                                              device.annotation.time),
                       count |-> IntegerOf[device.annotation.count]]
        /\ (FieldsValid /\ ~HasSuffix) =>
               /\ normalized.kind = "ok"
               /\ normalized.log.message = raw.message
               /\ normalized.log.repetition = None

\* a message of a two-byte character with the suffix
\* " [03 Meldungen seit 1.1.23 01:01:01]" has been normalized
C18_Witness ==
    /\ Normalized
    /\ HasSuffix
    /\ device.body = <<"U+00E9">>
    /\ device.annotation.count = <<"0", "3">>
    /\ device.annotation.date = <<"1", ".", "1", ".", "2", "3">>
    /\ normalized.kind = "ok"
    /\ normalized.log.repetition.count = 3
    /\ normalized.log.message = <<"U+00E9">>

\* C19: malformed repetition.  When the raw message ends in the repetition
\* suffix (count of digits, date and time of three numbers each) but its
\* count or its date/time does not parse, normalization of the entry fails
\* with an error: it yields no record, so none with repetition = None and
\* none with the annotation left in the message.  With valid fields the
\* error is the one of the repetition.
C19_MalformedRepetitionFails ==
    (Normalized /\ HasSuffix /\ ~SuffixParses) =>
        /\ normalized.kind = "err"
        /\ FieldsValid => normalized.error = "parse repetition message"

\* an entry with valid fields whose suffix counts more than an integer of
\* 64 bits holds has been rejected
C19_Witness ==
    /\ Normalized
    /\ FieldsValid
    /\ HasSuffix
    /\ device.annotation.count = <<"1", "0", "0">>
    /\ IsUniqueLocalTime(device.annotation.date, device.annotation.time, device.zone)
    /\ normalized.kind = "err"

\* C20: normalizer field errors.  Normalization produces no record and
\* returns an error when the date or the time field does not match the
\* pattern, when date and time are not a unique valid local time, or when
\* message_id or category_id is not an integer; a record that is produced
\* carries the values of the fields, never a default.
C20_FieldErrors ==
    Normalized =>
        /\ ~FieldsValid => normalized.kind = "err"
        /\ normalized.kind = "ok" =>
               /\ normalized.log.datetime = LocalTime(raw.date, raw.time)
               /\ normalized.log.message_id = IntegerOf[raw.message_id]
               /\ normalized.log.category_id = IntegerOf[raw.category_id]

\* an entry dated inside the hour Europe/Berlin skipped on 26.03.23, with
\* valid ids, has been rejected
C20_Witness ==
    /\ Normalized
    /\ device.zone = "Europe/Berlin"
    /\ raw.date = <<"2", "6", ".", "0", "3", ".", "2", "3">>
    /\ raw.time = <<"0", "2", ":", "3", "0", ":", "0", "0">>
    /\ IsInteger(raw.message_id)
    /\ IsInteger(raw.category_id)
    /\ normalized.kind = "err"
    /\ normalized.error = "datetime into local timezone"

(***************************************************************************)
(* Properties of the login, stated on the challenge the device issued      *)
(* (`box`), what from_str made of its text and the response sent.  What    *)
(* the fields of the device mean is tabulated here, apart from the         *)
(* parsers.                                                                *)
(***************************************************************************)

\* the characters of a hexadecimal number
HexCharacters ==
    {"0", "1", "2", "3", "4", "5", "6", "7", "8", "9",
     "a", "b", "c", "d", "e", "f", "A", "B", "C", "D", "E", "F"}

\* str is the hexadecimal text of a salt of 16 bytes
IsSaltText(str) ==
    Len(str) = 2 * SaltLen /\ \A i \in 1..Len(str) : str[i] \in HexCharacters

\* the byte both digits of a salt text of the device repeat
SaltByteOf == (<<"4", "f">> :> 79) @@ (<<"A", "7">> :> 167)

\* the bytes of a salt text of the device
SaltOf(str) == [i \in 1..SaltLen |-> SaltByteOf[SubSeq(str, 1, 2)]]

\* the lower-case hexadecimal text of a salt text of the device
LowerCaseOf(str) ==
    IF SubSeq(str, 1, 2) = <<"A", "7">> THEN Repeat(<<"a", "7">>, SaltLen) ELSE str

\* the number a rounds field of the device stands for
RoundsOf == (<<"1">> :> 1) @@ (<<"+", "2">> :> 2) @@ (<<"3">> :> 3)

\* one round of PBKDF2-HMAC-SHA256 with an output of 32 bytes
Round(input, salt, rounds) ==
    [pbkdf2 |-> input, salt |-> salt, rounds |-> rounds, len |-> 32]

\* C21: challenge acceptance.  Parsing a challenge succeeds only when its
\* version field is exactly "2" and it consists of exactly the five fields
\* version, rounds_1, salt_1, rounds_2, salt_2 with salts of 16 bytes in
\* hexadecimal; any other version and any other number of fields is rejected
\* with an error and yields no Challenge.
C21_ChallengeAcceptance ==
    pc = "parsed" =>
        /\ challenge.kind = "ok" =>
               /\ Len(box.fields) = 5
               /\ box.fields[1] = <<"2">>
               /\ IsSaltText(box.fields[3])
               /\ IsSaltText(box.fields[5])
        /\ (Len(box.fields) # 5 \/ box.fields[1] # <<"2">>) => challenge.kind = "err"

\* C21, what does hold: a challenge is accepted exactly when it has at least
\* five fields of which the first is "2", the second and fourth are numbers
\* of 32 bits and the third and fifth are salts of 16 bytes in hexadecimal;
\* fields after the fifth are not looked at.
C21_AcceptsOnFirstFiveFields ==
    pc = "parsed" =>
        (challenge.kind = "ok" <=>
            /\ Len(box.fields) >= 5
            /\ box.fields[1] = <<"2">>
            /\ box.fields[2] \in DOMAIN RoundsOf
            /\ box.fields[4] \in DOMAIN RoundsOf
            /\ IsSaltText(box.fields[3])
            /\ IsSaltText(box.fields[5]))

\* C22: challenge response composition.  The response to a challenge is the
\* text salt_2 in hexadecimal, "$", hash in hexadecimal, where salt_2 is the
\* second salt of the challenge and hash is round 2 (salt_2, rounds_2)
\* applied to the 32-byte output of round 1 (salt_1, rounds_1) applied to
\* the password: a function of the challenge and the password.
C22_ResponseComposition ==
    pc = "responded" =>
        response =
            LowerCaseOf(box.fields[5]) \o <<"$">> \o
            <<[hex |-> Round(Round(box.password,
                                   SaltOf(box.fields[3]), RoundsOf[box.fields[2]]),
                             SaltOf(box.fields[5]), RoundsOf[box.fields[4]])]>>

\* the response to a challenge with rounds "+2" and "3", a first salt of
\* bytes 79 and a second salt written in upper case has been composed
C22_Witness ==
    /\ pc = "responded"
    /\ box.fields[2] = <<"+", "2">>
    /\ box.fields[3] = Repeat(<<"4", "f">>, SaltLen)
    /\ box.fields[5] = Repeat(<<"A", "7">>, SaltLen)
    /\ box.password = <<"x", "$">>
    /\ response[1] = "a"

(***************************************************************************)
(* Properties of Connection::new_entries, stated on the call that has just *)
(* returned: `given` is the latest entry, `entries` the batch, `slice` the *)
(* result.                                                                 *)
(***************************************************************************)

Returned == pc = "returned"

\* 1-based indices of the batch entries with the time and msg_id of l
Matches(l, es) == {i \in 1..Len(es) : es[i].time = l.time /\ es[i].msg_id = l.msg_id}

\* the number of batch entries older than l
OlderThan(l, es) == Cardinality({i \in 1..Len(es) : es[i].time < l.time})

\* the batch has an entry not after and an entry not before l
Overlaps(l, es) ==
    /\ \E i \in 1..Len(es) : es[i].time <= l.time
    /\ \E i \in 1..Len(es) : es[i].time >= l.time

\* the four cases of the merge that hold for the batch and the latest row
CasesOf(l, es) ==
    {c \in {"empty store", "entirely newer", "entirely older", "partial overlap"} :
        \/ c = "empty store" /\ l = None
        \/ c = "entirely newer" /\ l # None /\ es[1].time > l.time
        \/ c = "entirely older" /\ l # None /\ es[Len(es)].time < l.time
        \/ c = "partial overlap" /\ l # None /\ Overlaps(l, es)}

\* the index after which the batch is new, from the latest row and the batch
\* alone
CutOf(l, es) ==
    IF l = None THEN 0
    ELSE IF Matches(l, es) # {} THEN Max(Matches(l, es))
    ELSE OlderThan(l, es)

\* C23: disjoint cases.  For a non-empty batch sorted by time and any latest
\* row, "entirely newer" and "entirely older" never hold together, exactly
\* one of the four cases applies, and the rows the merge writes are a
\* function of the latest row and the batch: the batch after an index those
\* two determine (a prefix of that when an INSERT fails).
C23_DisjointCases ==
    ReadLatest =>
        /\ ~({"entirely newer", "entirely older"} \subseteq CasesOf(Latest, entries))
        /\ Cardinality(CasesOf(Latest, entries)) = 1
        /\ WroteInOrder(SliceFrom(entries, CutOf(Latest, entries)))

\* C23 for the merge of the Database, whose case 2 compares the earliest
\* timestamp of the oldest batch record: with first_seen <= timestamp in
\* every record of a sorted batch, "entirely newer" and "entirely older"
\* never hold together.
C23_DatabaseDisjointCases ==
    (DbReadLatest /\ DbLatest # None) =>
        ~(/\ FirstSeen(entries[1]) > DbLatest.datetime
          /\ entries[Len(entries)].datetime < DbLatest.datetime)

\* a partial overlap with an older and a newer entry around the latest row
\* has been merged
C23_Witness ==
    /\ ReadLatest
    /\ CasesOf(Latest, entries) = {"partial overlap"}
    /\ entries[1].time < Latest.time
    /\ entries[Len(entries)].time > Latest.time
    /\ InsertsOk
    /\ Written # <<>>

\* C28: new_entries cut on a matching entry.  When the batch holds entries
\* with latest's time of which at least one has latest's msg_id, the result
\* is the part of the batch after the last such entry (empty when it is the
\* batch's last); entries of equal time after it are returned as new.
C28_CutOnMatchingEntry ==
    (Returned /\ Matches(given, entries) # {}) =>
        /\ slice = SubSeq(entries, Max(Matches(given, entries)) + 1, Len(entries))
        /\ \A i \in 1..Len(entries) :
               (i > Max(Matches(given, entries)) /\ entries[i].time = given.time) =>
                   \E j \in 1..Len(slice) : slice[j] = entries[i]

\* two entries carry latest's time and msg_id, and an entry of equal time
\* after the last of them has been returned as new
C28_Witness ==
    /\ Returned
    /\ Cardinality(Matches(given, entries)) = 2
    /\ slice # <<>>
    /\ slice[1].time = given.time

\* C29: new_entries with no matching entry.  When the batch overlaps
\* latest's time but no entry with that time has latest's msg_id (also when
\* no entry has that time), the result is every entry with time >=
\* latest's time, in batch order, and no entry with time < latest's time.
C29_NoMatchingEntry ==
    (Returned /\ Overlaps(given, entries) /\ Matches(given, entries) = {}) =>
        /\ slice = SubSeq(entries, OlderThan(given, entries) + 1, Len(entries))
        /\ \A j \in 1..Len(slice) : slice[j].time >= given.time
        /\ Len(slice) = Cardinality({i \in 1..Len(entries) : entries[i].time >= given.time})

\* a batch with an older entry and an entry of latest's time but another
\* msg_id has been cut
C29_Witness ==
    /\ Returned
    /\ Overlaps(given, entries)
    /\ Matches(given, entries) = {}
    /\ entries[1].time < given.time
    /\ slice # <<>>
    /\ slice[1].time = given.time

\* C30: new_entries returns a suffix.  For every latest and every non-empty
\* batch sorted by time the result is a contiguous suffix of the batch that
\* contains every entry with time > latest's time and no entry with time <
\* latest's time.
C30_ReturnsSuffix ==
    Returned =>
        \E k \in 0..Len(entries) :
            /\ slice = SubSeq(entries, k + 1, Len(entries))
            /\ \A i \in 1..Len(entries) : entries[i].time > given.time => i > k
            /\ \A i \in 1..Len(entries) : i > k => entries[i].time >= given.time

\* a proper, non-empty suffix of a batch with an older entry has been
\* returned
C30_Witness ==
    /\ Returned
    /\ Len(entries) = MaxBatchLen
    /\ entries[1].time < given.time
    /\ Len(slice) = 1
    /\ slice[1].time > given.time

\* the position of the most recent row of a non-empty table: the newest
\* timestamp, and among equal timestamps the row inserted last
LatestRowIndex(table) ==
    CHOOSE i \in 1..Len(table) :
        /\ \A j \in 1..Len(table) : table[j].datetime <= table[i].datetime
        /\ \A j \in (i + 1)..Len(table) : table[j].datetime < table[i].datetime

\* C24: only the latest row is mutable.  A merge never deletes a row and
\* never modifies a row other than the store's most recent row: every row
\* that was not the latest row before the merge is the same row, at the same
\* place, after it.
C24_OnlyLatestRowMutable ==
    Merged =>
        /\ Len(store) >= Len(before)
        /\ \A i \in 1..Len(before) :
               i # LatestRowIndex(before) => store[i] = before[i]

\* C24 in the stores that hold latest's identity key once
C24_OnlyLatestRowMutableSingleKey ==
    (before # <<>> /\ Cardinality(RowsWithKey(before, identity_key(DbLatest))) = 1) =>
        C24_OnlyLatestRowMutable

\* C24 for Connection::append_logs, which only INSERTs: the table before
\* the merge is a prefix of the table after it.
C24_ConnectionKeepsRows ==
    Merged => (Len(logs) >= Len(before) /\ SubSeq(logs, 1, Len(before)) = before)

\* a replace changed the latest row of a store of several rows and left the
\* others alone
C24_SingleKeyWitness ==
    /\ Merged
    /\ Len(before) >= 2
    /\ \E i \in 1..Len(ops) : ops[i] = "replace"
    /\ store[LatestRowIndex(before)] # before[LatestRowIndex(before)]

\* the positions of the rows a merge changed
ChangedRows == {i \in 1..Len(before) : i <= Len(store) /\ store[i] # before[i]}

\* the parts of a row the claim lets a replace change: timestamp and
\* repetition.count, or a repetition that appears with first_seen equal to
\* the old timestamp
AdvancedOnly(old, new) ==
    \/ old.repetition # None /\ new.repetition # None
    \/ /\ old.repetition = None
       /\ new.repetition # None
       /\ new.repetition.datetime = old.datetime

\* a repetition that disappears: the new timestamp is the old first_seen
RepetitionDropped(old, new) ==
    /\ old.repetition # None
    /\ new.repetition = None
    /\ new.datetime = old.repetition.datetime

Ordinal(t) ==
    (((((t.year - 2000) * 12 + t.month) * 31 + t.day) * 24 + t.hour) * 60 + t.minute) * 60
        + t.second

\* the normalizer produced a record with a repetition
ProducedRepetition ==
    /\ Normalized
    /\ normalized.kind = "ok"
    /\ normalized.log.repetition # None

\* C26: repetition well-formedness.  Every record the normalizer produces
\* with a repetition has repetition.count >= 2 and repetition.first_seen <=
\* timestamp.
C26_RepetitionWellFormed ==
    ProducedRepetition =>
        /\ normalized.log.repetition.count >= 2
        /\ Ordinal(normalized.log.repetition.datetime) <= Ordinal(normalized.log.datetime)

\* C26 for the entries whose annotation is well-formed as the device wrote
\* it: a count of at least 2 and a date/time not after the entry's own
C26_WellFormedAnnotationKept ==
    (/\ ProducedRepetition
     /\ IntegerOf[device.annotation.count] >= 2
     /\ Ordinal(LocalTime(device.annotation.date, device.annotation.time))
            <= Ordinal(LocalTime(raw.date, raw.time))) =>
        /\ normalized.log.repetition.count >= 2
        /\ Ordinal(normalized.log.repetition.datetime) <= Ordinal(normalized.log.datetime)

\* a record with a count of 1 was produced
C26_CountBelowTwo == ProducedRepetition /\ normalized.log.repetition.count < 2

\* a record first seen after its own timestamp was produced
C26_FirstSeenAfterTimestamp ==
    /\ ProducedRepetition
    /\ normalized.log.repetition.count >= 2
    /\ Ordinal(normalized.log.repetition.datetime) > Ordinal(normalized.log.datetime)

\* the poll driver holds a batch it fetched
HoldsBatch == pc \in {"fetched", "merging", "merged"}

\* sorted non-increasing by timestamp: newest first
NewestFirst(list) == \A i, j \in 1..Len(list) : i < j => list[i].datetime >= list[j].datetime

\* sorted non-decreasing by timestamp: Invariant I1
OldestFirst(batch) == \A i, j \in 1..Len(batch) : i < j => batch[i].datetime <= batch[j].datetime

\* C27: batch reversal.  The batch the poll driver hands to the merge is the
\* list the device delivered, back to front: the entry at place i of the
\* list is at place Len - i + 1 of the batch.  So a list sorted
\* non-increasing by timestamp gives a batch that satisfies Invariant I1, and
\* of two entries with equal timestamps the one the device delivered first
\* comes last in the batch.
C27_BatchReversal ==
    HoldsBatch =>
        /\ Len(entries) = Len(delivered)
        /\ \A i \in 1..Len(delivered) : entries[Len(delivered) - i + 1] = delivered[i]
        /\ NewestFirst(delivered) => OldestFirst(entries)
        /\ \A i, j \in 1..Len(delivered) :
               (i < j /\ delivered[i].datetime = delivered[j].datetime) =>
                   \E k, l \in 1..Len(entries) :
                       /\ l < k
                       /\ entries[k] = delivered[i]
                       /\ entries[l] = delivered[j]

\* a list of two different entries, newest first, is handed to the merge
\* oldest first
C27_Witness ==
    /\ pc = "merging"
    /\ Len(delivered) = 2
    /\ delivered[1].datetime > delivered[2].datetime
    /\ entries[1] = delivered[2]
    /\ entries[1].datetime < entries[2].datetime

\* two different entries of one timestamp are handed to the merge in the
\* opposite order
C27_EqualTimestampsWitness ==
    /\ pc = "merging"
    /\ Len(delivered) = 2
    /\ delivered[1].datetime = delivered[2].datetime
    /\ delivered[1] # delivered[2]
    /\ entries = <<delivered[2], delivered[1]>>

(***************************************************************************)
(* The table of Connection::append_logs over many merges                   *)
(***************************************************************************)

\* the greatest logged_at of a non-empty table
MaxLoggedAt(table) ==
    CHOOSE t \in 0..MaxTime :
        /\ \E i \in 1..Len(table) : table[i].logged_at = t
        /\ \A i \in 1..Len(table) : table[i].logged_at <= t

\* C31: insertion order agrees with time order.  After any sequence of
\* merges the rows in ascending id order have non-decreasing logged_at, and
\* the row read as latest (highest id) has the greatest logged_at of the
\* table.
C31_InsertionOrderIsTimeOrder ==
    /\ \A i, j \in 1..Len(logs) : i < j => logs[i].logged_at <= logs[j].logged_at
    /\ logs # <<>> =>
           /\ latest_entry(logs) # None
           /\ latest_entry(logs).time = MaxLoggedAt(logs)

\* a second merge added rows of a later time and of the latest row's time
\* to a table
C31_Witness ==
    /\ Merged
    /\ outcome.kind = "ok"
    /\ before # <<>>
    /\ Len(logs) = Len(before) + 2
    /\ logs[Len(before) + 1].logged_at = before[Len(before)].logged_at
    /\ logs[Len(logs)].logged_at > before[Len(before)].logged_at
    /\ latest_entry(logs).time = MaxTime

\* C32: unique (logged_at, message_id).  No merge tries to insert a row
\* whose (logged_at, message_id) pair is already in the table or was
\* inserted earlier in the same merge: the unique index never rejects an
\* INSERT.
C32_UniqueIndexNeverRejects ==
    \A i \in 1..Len(ops) : ops[i] # "insert_rejected"

\* the unique index rejected a row of a batch that names no pair twice: the
\* pair was in the table before the merge
C32_RejectedAcrossMerges ==
    /\ Merged
    /\ \E i \in 1..Len(ops) : ops[i] = "insert_rejected"
    /\ \A i, j \in 1..Len(entries) : i # j => ~SameKey(entries[i], entries[j])

\* C32 for what the index does keep: no two rows of the table share a
\* (logged_at, message_id) pair.
C32_NoTwoRowsShareAPair ==
    \A i, j \in 1..Len(logs) :
        i # j => ~(logs[i].logged_at = logs[j].logged_at /\ logs[i].message_id = logs[j].message_id)

(***************************************************************************)
(* The store of Database::append_new_logs over many merges                 *)
(***************************************************************************)

\* the timestamp of the most recent row of a non-empty table
NewestTimestamp(table) == Max({table[i].datetime : i \in 1..Len(table)})

\* the merge of a valid batch succeeded
MergedOk ==
    /\ Merged
    /\ entries # <<>>
    /\ OldestFirst(entries)
    /\ outcome.kind = "ok"

\* C33: the latest timestamp never regresses.  After a successful merge of
\* a valid batch the timestamp of the store's most recent row is not before
\* what it was when the merge started, also when the pivot replaced the
\* latest row.
C33_LatestNeverRegresses ==
    (MergedOk /\ before # <<>>) =>
        /\ store # <<>>
        /\ NewestTimestamp(store) >= NewestTimestamp(before)

\* a pivot with an earlier timestamp replaced the latest row, and a record
\* after the pivot kept the latest timestamp where it was
C33_Witness ==
    /\ MergedOk
    /\ before # <<>>
    /\ OpCount("replace") = 1
    /\ \E i \in ChangedRows : store[i].datetime < before[i].datetime
    /\ NewestTimestamp(store) >= NewestTimestamp(before)

\* a pivot with a later timestamp replaced the latest row
C33_AdvancedWitness ==
    /\ MergedOk
    /\ before # <<>>
    /\ OpCount("replace") = 1
    /\ NewestTimestamp(store) > NewestTimestamp(before)

\* C33 for Connection::append_logs, which never replaces: the logged_at of
\* the row of highest id is not before what it was when the merge started,
\* whether or not the merge succeeded.
C33_ConnectionLatestNeverRegresses ==
    (Merged /\ before # <<>>) =>
        /\ logs # <<>>
        /\ logs[Len(logs)].logged_at >= before[Len(before)].logged_at

(***************************************************************************)
(* Overlapping polls of a device whose log grows at the newest end          *)
(***************************************************************************)

\* the store holds the device's log from some entry on up to its newest
\* entry, every entry once, in the device's order and in the state given
StoreIsTailOf(log) ==
    /\ Len(store) <= Len(log)
    /\ store = SubSeq(log, Len(log) - Len(store) + 1, Len(log))

\* no two rows of the store are records of one event
OneRowPerEvent ==
    \A i, j \in 1..Len(store) : i # j => ~SameEvent(store[i], store[j])

\* C34: no entry lost under overlapping polls.  For a device whose log only
\* grows at the newest end and a poller whose every window holds the entry
\* that is the store's latest, after every merge the store holds exactly one
\* row per identity key of the device's log up to the end of the last
\* window, each in the state last fetched.
C34_NoEntryLost ==
    Merged =>
        /\ outcome.kind = "ok"
        /\ Len(store) >= Len(entries)
        /\ StoreIsTailOf(history.log)
        /\ OneRowPerEvent

\* C34 for the device logs that name no event twice
C34_NoEntryLostDistinctEvents ==
    (Merged /\ \A i, j \in 1..Len(history.log) :
                   i # j => ~SameEvent(history.log[i], history.log[j])) =>
        /\ outcome.kind = "ok"
        /\ Len(store) >= Len(entries)
        /\ StoreIsTailOf(history.log)
        /\ OneRowPerEvent

\* entries of the window never reached the store: the merge ended Ok and the
\* store is shorter than the window
C34_EntryLost ==
    /\ Merged
    /\ outcome.kind = "ok"
    /\ Len(store) < Len(entries)

\* a second window overlapped the store: its first entry was stored
\* already, its newest entry had advanced and was replaced, and nothing was
\* lost
C34_DistinctEventsWitness ==
    /\ Merged
    /\ outcome.kind = "ok"
    /\ Len(before) = 2
    /\ Len(entries) = 2
    /\ OpCount("replace") = 1
    /\ store = history.log
    /\ OneRowPerEvent

(***************************************************************************)
(* Client::logs as a whole                                                 *)
(***************************************************************************)

\* some raw entry of the response fails to normalize
SomeEntryFails ==
    \E i \in 1..Len(reply.logs) : try_from(reply.logs[i], reply.zone).kind # "ok"

\* C35: the fetch is all-or-nothing.  Client::logs returns an error and no
\* batch when any raw entry of the response fails to normalize; what it
\* returns otherwise holds the record of every entry, in the order of the
\* response, so the batch handed to the merge holds every entry of the
\* device (in reverse).
C35_FetchAllOrNothing ==
    /\ pc = "collected" =>
           /\ SomeEntryFails => fetched.kind # "ok"
           /\ fetched.kind = "ok" =>
                  /\ Len(fetched.logs) = Len(reply.logs)
                  /\ \A i \in 1..Len(reply.logs) :
                         try_from(reply.logs[i], reply.zone) = OkLog(fetched.logs[i])
           /\ entries = <<>>
    /\ pc = "handed" =>
           /\ ~SomeEntryFails
           /\ Len(entries) = Len(reply.logs)
           /\ \A i \in 1..Len(reply.logs) :
                  try_from(reply.logs[i], reply.zone) = OkLog(entries[Len(entries) - i + 1])
    /\ pc \in {"idle", "responded"} => entries = <<>>

\* a response whose second of three entries fails is answered with that
\* entry's error
C35_Witness ==
    /\ pc = "collected"
    /\ Len(reply.logs) = 3
    /\ try_from(reply.logs[1], reply.zone).kind = "ok"
    /\ try_from(reply.logs[2], reply.zone).kind = "err"
    /\ try_from(reply.logs[3], reply.zone).kind = "ok"
    /\ fetched = try_from(reply.logs[2], reply.zone)

\* a response of three entries that all normalize is handed on whole
C35_BatchWitness ==
    /\ pc = "handed"
    /\ Len(entries) = 3
    /\ entries[1] # entries[3]


(***************************************************************************)
(* The session of the Client                                               *)
(***************************************************************************)

\* the eight bytes with the given last byte
SidEndingIn(last) == [none |-> FALSE, id |-> [i \in 1..SidLen |-> IF i = SidLen THEN last ELSE 0]]

\* the session id an answer carries: none for a failed request or a <SID>
\* that is no sixteen hex digits
Carried(answer) ==
    IF ~answer.ok THEN None
    ELSE IF answer.sid = Repeat(<<"0">>, 16) THEN SidEndingIn(0)
    ELSE IF answer.sid[Len(answer.sid)] = "1" THEN SidEndingIn(161)
    ELSE IF answer.sid[Len(answer.sid)] = "2" THEN SidEndingIn(178)
    ELSE None

Confirms(answer, stored) ==
    /\ Carried(answer) # None
    /\ Carried(answer) # SidEndingIn(0)
    /\ Carried(answer) = stored

Denies(answer, stored) ==
    /\ Carried(answer) # None
    /\ Carried(answer) = SidEndingIn(0) \/ Carried(answer) # stored

HasReturned(operation) == pc = "returned" /\ calling = operation

LoggedIn == \E i \in 1..Len(requests) : requests[i] = "login-challenge"

\* C36: check_or_renew_session_id returns the stored session id without
\* logging in only when the device answered the check with a non-zero id
\* equal to the stored one; with no id stored, or a different or zero id in
\* the answer, it logs in (challenge request, then response request) and a
\* successful login stores and returns the new id.
C36_CheckThenRenew ==
    HasReturned("check_or_renew") =>
        /\ (result.kind = "ok" /\ ~LoggedIn) =>
               /\ held # None
               /\ requests = <<"check-session-id">>
               /\ Confirms(answers[1], held)
               /\ result.id = held
               /\ session_id = held
        /\ held = None => requests[1] = "login-challenge"
        /\ (held # None /\ Denies(answers[1], held)) =>
               /\ Len(requests) >= 2
               /\ requests[2] = "login-challenge"
        /\ \A i \in 1..Len(requests) :
               requests[i] = "login-response" => i > 1 /\ requests[i - 1] = "login-challenge"
        /\ (result.kind = "ok" /\ LoggedIn) =>
               /\ requests[Len(requests)] = "login-response"
               /\ session_id = Carried(answers[Len(answers)])
               /\ result.id = session_id

\* the device confirmed the stored id and no login was made
C36_Witness ==
    /\ HasReturned("check_or_renew")
    /\ held # None
    /\ requests = <<"check-session-id">>
    /\ result.kind = "ok"
    /\ result.id = held

\* the device answered with another id, a login followed and stored a new id
C36_RenewedWitness ==
    /\ HasReturned("check_or_renew")
    /\ held # None
    /\ requests = <<"check-session-id", "login-challenge", "login-response">>
    /\ Carried(answers[1]) \notin {None, SidEndingIn(0), held}
    /\ result.kind = "ok"
    /\ session_id # held

\* the device answered the check with the zero id and a login followed
C36_ZeroAnswerWitness ==
    /\ HasReturned("check_or_renew")
    /\ held # None
    /\ Carried(answers[1]) = SidEndingIn(0)
    /\ Len(requests) = 3
    /\ result.kind = "ok"

\* C37: the stored session id is absent or a non-zero id that a login
\* response carried; a login whose response carries the all-zero SID fails
\* with an error and leaves the stored id unchanged.
C37_StoredIdNeverZero ==
    /\ session_id = None \/ session_id \in {SidEndingIn(161), SidEndingIn(178)}
    /\ (pc = "returned" /\ session_id # held /\ session_id # None) =>
           /\ requests[Len(requests)] = "login-response"
           /\ Carried(answers[Len(answers)]) = session_id
    /\ (/\ pc = "returned"
        /\ requests # <<>>
        /\ requests[Len(requests)] = "login-response"
        /\ Carried(answers[Len(answers)]) = SidEndingIn(0)) =>
           /\ result.kind = "err"
           /\ session_id = held

\* a login response carried the all-zero SID while an id was stored
C37_Witness ==
    /\ pc = "returned"
    /\ held # None
    /\ requests # <<>>
    /\ requests[Len(requests)] = "login-response"
    /\ Carried(answers[Len(answers)]) = SidEndingIn(0)
    /\ result.kind = "err"

\* a login stored an id
C37_StoredWitness ==
    /\ HasReturned("login")
    /\ held = None
    /\ session_id = SidEndingIn(178)

\* C38: when logout returns Ok the stored session id is absent; the logout
\* request is sent only when the device confirmed the stored id; when the
\* check request or the logout request fails, logout returns the error and
\* the stored session id is unchanged.
C38_LogoutClears ==
    HasReturned("logout") =>
        /\ result.kind = "ok" => session_id = None
        /\ \A i \in 1..Len(requests) :
               requests[i] = "logout" =>
                   /\ i = 2
                   /\ requests[1] = "check-session-id"
                   /\ Confirms(answers[1], held)
        /\ (\E i \in 1..Len(answers) : ~answers[i].ok) =>
               /\ result.kind = "err"
               /\ session_id = held

\* the logout request failed after the device confirmed the stored id
C38_Witness ==
    /\ HasReturned("logout")
    /\ requests = <<"check-session-id", "logout">>
    /\ ~answers[2].ok
    /\ result.kind = "err"
    /\ session_id = held

\* logout went through and cleared the stored id
C38_ClearedWitness ==
    /\ HasReturned("logout")
    /\ held # None
    /\ requests = <<"check-session-id", "logout">>
    /\ result.kind = "ok"
    /\ session_id = None

\* the check request of logout failed
C38_CheckFailedWitness ==
    /\ HasReturned("logout")
    /\ requests = <<"check-session-id">>
    /\ ~answers[1].ok
    /\ session_id = held


(***************************************************************************)
(* Storage round trip                                                      *)
(***************************************************************************)

\* the record's timestamps lie on a millisecond
OnMillisecond(log) ==
    /\ log.datetime.instant % 2 = 0
    /\ log.repetition # None => log.repetition.datetime.instant % 2 = 0

Loaded == pc = "loaded"

OneRepetitionColumn(found) ==
    (found.repetition_datetime = None) # (found.repetition_count = None)

\* C39: a Log with timestamps on a millisecond, converted to its database
\* row and back, is the Log it was; the record read from a row has a
\* repetition iff both repetition columns of the row are set; and a row with
\* exactly one of the two columns set is rejected with an error.
C39_StorageRoundTrip ==
    Loaded =>
        /\ (original # None /\ OnMillisecond(original)) =>
               /\ restored.ok
               /\ restored.value = original
        /\ restored.ok =>
               (restored.value.repetition # None <=>
                    (db_row.repetition_datetime # None /\ db_row.repetition_count # None))
        /\ OneRepetitionColumn(db_row) => ~restored.ok

\* a Log with a repetition went to its row and came back
C39_Witness ==
    /\ Loaded
    /\ original # None
    /\ OnMillisecond(original)
    /\ original.repetition # None
    /\ original.datetime.instant < 0
    /\ restored.ok

\* a row with only repetition_count set was rejected
C39_RejectedWitness ==
    /\ Loaded
    /\ db_row.repetition_datetime = None
    /\ db_row.repetition_count # None
    /\ ~restored.ok

\* what lies between two milliseconds is not stored: such a Log comes back
\* rounded down to the millisecond
C39_SubMillisecondRoundedDown ==
    (Loaded /\ original # None) =>
        /\ restored.ok
        /\ restored.value.datetime.instant = 2 * (original.datetime.instant \div 2)
        /\ restored.value.datetime.offset = original.datetime.offset
        /\ restored.value.message = original.message
        /\ restored.value.message_id = original.message_id
        /\ restored.value.category_id = original.category_id

C39_RoundedDownWitness ==
    /\ Loaded
    /\ original # None
    /\ original.datetime.instant = -3
    /\ restored.ok
    /\ restored.value.datetime.instant = -4


(***************************************************************************)
(* Request duration                                                        *)
(***************************************************************************)

Recorded == pc = "recorded"

\* min(x, i64::MAX), with i64::MAX written out
Clamped(millis) == IF millis < 7 THEN millis ELSE 7

\* C40: the duration_ms recorded for a request is the elapsed milliseconds
\* when they fit in an i64 and i64::MAX otherwise, in both clients.
C40_DurationClamp ==
    Recorded => duration_ms.value = Clamped(elapsed)

\* the client of fritz-app records the clamped duration
C40_AppDurationClamp ==
    (Recorded /\ duration_ms.client = "fritz-app") => duration_ms.value = Clamped(elapsed)

\* a duration beyond i64::MAX was recorded by fritz-app as i64::MAX
C40_AppWitness ==
    /\ Recorded
    /\ duration_ms.client = "fritz-app"
    /\ elapsed > 7
    /\ duration_ms.value = 7

\* the client of src/login records i64::MAX for every duration that fits in
\* an i64, and the low bits of a longer one
C40_LoginDurationNeverBelowMax ==
    (Recorded /\ duration_ms.client = "login") =>
        /\ elapsed <= 7 => duration_ms.value = 7
        /\ elapsed > 7 => duration_ms.value = ((elapsed + 8) % 16) - 8

\* a request of 5 ms was recorded by src/login as i64::MAX
C40_LoginWitness ==
    /\ Recorded
    /\ duration_ms.client = "login"
    /\ elapsed = 5
    /\ duration_ms.value = 7

\* a duration beyond i64::MAX was recorded by src/login as a negative number
C40_LoginNegativeWitness ==
    /\ Recorded
    /\ duration_ms.client = "login"
    /\ duration_ms.value < 0

====
